---- MODULE Spec2Model ----
(***************************************************************************)
(* One conversion run of tabular2mcap (McapConverter.convert) as a state   *)
(* machine: glob resolution, the tabular / other / attachment / metadata   *)
(* phases, the schema cache, and the two backends' writers.                *)
(*                                                                         *)
(* Text (paths, topic names, schema names, column names) is a sequence of  *)
(* one-character strings, so that the sanitising functions are computed   *)
(* character by character as the code does.                                *)
(***************************************************************************)
EXTENDS Integers, Sequences, FiniteSets, TLC

(***************************************************************************)
(* Text helpers                                                            *)
(***************************************************************************)
Range(s) == {s[i] : i \in 1..Len(s)}

LowerChars == <<"a","b","c","d","e","f","g","h","i","j","k","l","m",
                "n","o","p","q","r","s","t","u","v","w","x","y","z">>

UpperChars == <<"A","B","C","D","E","F","G","H","I","J","K","L","M",
                "N","O","P","Q","R","S","T","U","V","W","X","Y","Z">>

DigitChars == {"0","1","2","3","4","5","6","7","8","9"}

IsAlnum(c) == c \in Range(LowerChars) \cup Range(UpperChars) \cup DigitChars

\* str.lower() on one character
ToLower(c) ==
    IF c \in Range(UpperChars)
    THEN LowerChars[CHOOSE i \in 1..Len(UpperChars) : UpperChars[i] = c]
    ELSE c

\* str.upper() on one character
ToUpper(c) ==
    IF c \in Range(LowerChars)
    THEN UpperChars[CHOOSE i \in 1..Len(LowerChars) : LowerChars[i] = c]
    ELSE c

MapChars(s, F(_)) == [i \in 1..Len(s) |-> F(s[i])]

StartsWith(s, p) == Len(p) <= Len(s) /\ SubSeq(s, 1, Len(p)) = p

EndsWith(s, p) ==
    Len(p) <= Len(s) /\ SubSeq(s, Len(s) - Len(p) + 1, Len(s)) = p

\* position of the last occurrence of c in s, 0 when there is none
LastIndexOf(s, c) ==
    IF \E i \in 1..Len(s) : s[i] = c
    THEN CHOOSE i \in 1..Len(s) : s[i] = c /\ \A j \in (i+1)..Len(s) : s[j] # c
    ELSE 0

\* str.replace(a, b) for single characters
ReplaceChar(s, a, b) == [i \in 1..Len(s) |-> IF s[i] = a THEN b ELSE s[i]]

(***************************************************************************)
(* Paths (pathlib): str(relative_path), .name, .with_suffix("")            *)
(***************************************************************************)
\* Path.name: the last component of the root-relative path
PathName(p) == SubSeq(p, LastIndexOf(p, "/") + 1, Len(p))

\* Path.with_suffix(""): drops the last ".ext" of the last component
WithoutSuffix(p) ==
    LET dot == LastIndexOf(p, ".")
        slash == LastIndexOf(p, "/")
    IN  IF dot > slash + 1 THEN SubSeq(p, 1, dot - 1) ELSE p

(***************************************************************************)
(* McapConverter._clean_string: re.sub(r"[ .-]", "", string)               *)
(***************************************************************************)
IsSeparator(c) == c \in {" ", ".", "-"}

CleanKeep(c) == ~IsSeparator(c)

_clean_string(string) == SelectSeq(string, CleanKeep)

\* f"{topic_prefix}{relative_path_no_ext}/{topic_suffix}" of the tabular loop
TabularTopicName(topic_prefix, relative_path, topic_suffix) ==
    topic_prefix \o _clean_string(relative_path) \o <<"/">> \o topic_suffix

\* f"{topic_name_prefix}{other_mapping.topic_suffix}" of the other-mapping loop
OtherTopicName(topic_prefix, relative_path, topic_suffix) ==
    topic_prefix \o _clean_string(WithoutSuffix(relative_path))
        \o <<"/">> \o topic_suffix

(***************************************************************************)
(* Generated schema names                                                  *)
(***************************************************************************)
TablePrefix == <<"t","a","b","l","e",".">>

\* f"table.{topic_name.replace('/', '.')}"
JsonGenericSchemaName(topic_name) ==
    TablePrefix \o ReplaceChar(topic_name, "/", ".")

SubNonAlnum(c) == IF IsAlnum(c) THEN c ELSE "_"

SubNonWord(c) == IF IsAlnum(c) \/ c = "_" THEN c ELSE "_"

\* "".join(part.capitalize() for part in msg_name.split("_") if part)
RECURSIVE PascalCase(_, _)
PascalCase(s, atStart) ==
    IF s = <<>> THEN <<>>
    ELSE IF Head(s) = "_" THEN PascalCase(Tail(s), TRUE)
    ELSE <<IF atStart THEN ToUpper(Head(s)) ELSE ToLower(Head(s))>>
             \o PascalCase(Tail(s), FALSE)

\* Ros2Converter.sanitize_schema_name
sanitize_schema_name(schema_name) ==
    LET cut == LastIndexOf(schema_name, "/")
        package_name == IF cut = 0 THEN <<>> ELSE SubSeq(schema_name, 1, cut - 1)
        msg_name == SubSeq(schema_name, cut + 1, Len(schema_name))
    IN  MapChars(MapChars(package_name, SubNonAlnum), ToLower)
            \o <<"/">>
            \o PascalCase(MapChars(msg_name, SubNonWord), TRUE)

\* sanitize_ros2_field_name: re.sub(r"[^a-zA-Z0-9_]", "_", key).lower()
sanitize_ros2_field_name(key) == MapChars(MapChars(key, SubNonWord), ToLower)

\* df.columns.str.replace("[ .-]", "_").str.replace("[^A-Za-z0-9_]", "")
SepToUnderscore(c) == IF IsSeparator(c) THEN "_" ELSE c

IsWordChar(c) == IsAlnum(c) \/ c = "_"

SanitizeColumn(name) == SelectSeq(MapChars(name, SepToUnderscore), IsWordChar)

(***************************************************************************)
(* Text literals of the model's inputs and of the code                     *)
(***************************************************************************)
\* "timestamp"
C_timestamp == <<"t","i","m","e","s","t","a","m","p">>

\* "sec"
C_sec == <<"s","e","c">>

\* "nsec"
C_nsec == <<"n","s","e","c">>

\* "l.t"
C_lt_raw == <<"l",".","t">>

\* "l_t"
C_lt == <<"l","_","t">>

\* "pt"
C_pt == <<"p","t">>

\* "a.csv"
P_a_csv == <<"a",".","c","s","v">>

\* "d/a.csv"
P_d_a_csv == <<"d","/","a",".","c","s","v">>

\* "v.mp4"
P_v_mp4 == <<"v",".","m","p","4">>

\* "d/v.mp4"
P_d_v_mp4 == <<"d","/","v",".","m","p","4">>

\* "n.txt"
P_n_txt == <<"n",".","t","x","t">>

\* "d/n.txt"
P_d_n_txt == <<"d","/","n",".","t","x","t">>

\* "csv"
Ext_csv == <<"c","s","v">>

\* "mp4"
Ext_mp4 == <<"m","p","4">>

\* "txt"
Ext_txt == <<"t","x","t">>

\* "d/"
Re_d == <<"d","/">>

\* "a"
Re_a == <<"a">>

\* "v"
Re_v == <<"v">>

\* "n"
Re_n == <<"n">>

\* "s"
Suffix_s == <<"s">>

\* "t"
Suffix_t == <<"t">>

\* "foxglove."
FoxglovePrefix == <<"f","o","x","g","l","o","v","e",".">>

\* "foxglove.CompressedImage"
JsonCompressedImage == <<"f","o","x","g","l","o","v","e",".","C","o","m","p","r","e","s","s","e","d","I","m","a","g","e">>

\* "foxglove.CompressedVideo"
JsonCompressedVideo == <<"f","o","x","g","l","o","v","e",".","C","o","m","p","r","e","s","s","e","d","V","i","d","e","o">>

\* "foxglove_msgs/msg/CompressedImage"
Ros2CompressedImage == <<"f","o","x","g","l","o","v","e","_","m","s","g","s","/","m","s","g","/","C","o","m","p","r","e","s","s","e","d","I","m","a","g","e">>

\* "foxglove_msgs/msg/CompressedVideo"
Ros2CompressedVideo == <<"f","o","x","g","l","o","v","e","_","m","s","g","s","/","m","s","g","/","C","o","m","p","r","e","s","s","e","d","V","i","d","e","o">>

\* "foxglove_msgs/CompressedImage"
Ros1CompressedImage == <<"f","o","x","g","l","o","v","e","_","m","s","g","s","/","C","o","m","p","r","e","s","s","e","d","I","m","a","g","e">>

\* "foxglove_msgs/CompressedVideo"
Ros1CompressedVideo == <<"f","o","x","g","l","o","v","e","_","m","s","g","s","/","C","o","m","p","r","e","s","s","e","d","V","i","d","e","o">>

\* "foxglove.LocationFix"
JsonLocationFix == <<"f","o","x","g","l","o","v","e",".","L","o","c","a","t","i","o","n","F","i","x">>

\* "foxglove_msgs/msg/LocationFix"
Ros2LocationFix == <<"f","o","x","g","l","o","v","e","_","m","s","g","s","/","m","s","g","/","L","o","c","a","t","i","o","n","F","i","x">>

\* "foxglove.Nope"
JsonUnknown == <<"f","o","x","g","l","o","v","e",".","N","o","p","e">>

\* "x/msg/Nope"
Ros2Unknown == <<"x","/","m","s","g","/","N","o","p","e">>

\* "Nope"
PlainUnknown == <<"N","o","p","e">>

(***************************************************************************)
(* Optional values (Python None)                                           *)
(***************************************************************************)
None == [some |-> FALSE, v |-> <<>>]

Some(x) == [some |-> TRUE, v |-> x]

\* pandas NaN in a cell (cells are otherwise non-negative integers)
NaN == -1

\* Python None as a message value
Null == -2

\* the cell values that are not numbers: an empty sequence, a sequence that
\* holds a null, a pandas Timestamp, the ISO-8601 text of that Timestamp, a str
Cells == [empty_seq |-> -3, seq_of_null |-> -4, timestamp |-> -5, iso_text |-> -6, text |-> -7]

\* nanoseconds per second, the literal 1_000_000_000 of the timestamp arithmetic
NsPerSec == 1000000000

(***************************************************************************)
(* Bounds of the input space                                               *)
(***************************************************************************)
\* rows of a table
MaxRows == 2

\* converter specs of a tabular mapping rule
MaxSpecs == 2

SeqsUpTo(S, n) == UNION {[1..k -> S] : k \in 0..n}

SeqsFromTo(S, lo, hi) == UNION {[1..k -> S] : k \in lo..hi}

(***************************************************************************)
(* loader/models.py: the configuration model                              *)
(***************************************************************************)
WRITER_FORMATS == {"ros1", "ros2", "json", "protobuf"}

\* a format check that lets every format of the configuration model through
AllFormatsSupported == {"ros1", "ros2", "json", "protobuf"}

SUPPORT_WRITER_FORMATS == {"json", "ros2"}

\* FileMatchingConfig.file_pattern, restricted to the glob forms "**/*.ext"
\* (recursive) and "*.ext" (top level only)
GlobPattern(recursive, ext) == [recursive |-> recursive, ext |-> ext]

\* ConverterFunctionConfig
ConverterFunctionConfig(function_name, schema_name, topic_suffix, exclude_columns) ==
    [function_name |-> function_name, schema_name |-> schema_name,
     topic_suffix |-> topic_suffix, exclude_columns |-> exclude_columns]

\* TabularMappingConfig
TabularMappingConfig(file_pattern, exclude_file_pattern, converter_functions) ==
    [file_pattern |-> file_pattern, exclude_file_pattern |-> exclude_file_pattern,
     converter_functions |-> converter_functions]

\* CompressedImageMappingConfig / CompressedVideoMappingConfig
OtherMappingConfig(type, file_pattern, exclude_file_pattern, topic_suffix) ==
    [type |-> type, file_pattern |-> file_pattern,
     exclude_file_pattern |-> exclude_file_pattern,
     topic_suffix |-> topic_suffix, frame_id |-> "camera",
     format |-> IF type = "compressed_image" THEN "jpeg" ELSE "h264"]

\* AttachmentConfig / MetadataConfig
FileMatchingConfig(file_pattern, exclude_file_pattern) ==
    [file_pattern |-> file_pattern, exclude_file_pattern |-> exclude_file_pattern]

\* CompressedImageMappingConfig.schema_name / CompressedVideoMappingConfig.schema_name
OtherSchemaName(type, writer_format) ==
    IF type = "compressed_image"
    THEN IF writer_format = "ros1" THEN Ros1CompressedImage
         ELSE IF writer_format = "ros2" THEN Ros2CompressedImage
         ELSE JsonCompressedImage
    ELSE IF writer_format = "ros1" THEN Ros1CompressedVideo
         ELSE IF writer_format = "ros2" THEN Ros2CompressedVideo
         ELSE JsonCompressedVideo

\* ConverterFunctionDefinition: the row template is one of five shapes,
\*   "ts"   {"timestamp": {"sec": {{sec}}, "nsec": {{nsec}}}}
\*   "hs"   {"header": {"stamp": {"sec": {{sec}}, "nanosec": {{nsec}}}}}
\*   "both" the two of them, header.stamp.sec rendered as {{sec - 1}}
\*   "none" {} (the default template)
\*   "opt"  {% if sec == 1 %} the "ts" text {% else %} {} {% endif %}
\* log_time_template is absent or "{{ l_t }}", publish_time_template is absent
\* or "{{ pt }}".
ConverterFunctionDefinition(template, log_time_template, publish_time_template) ==
    [template |-> template, log_time_template |-> log_time_template,
     publish_time_template |-> publish_time_template]

\* the converter-function file of the run (McapConverter._load_converter_functions)
converter_functions ==
    [f \in {"f_ts", "f_hs", "f_both", "f_none", "f_opt", "f_lt", "f_pt", "f_ltn"} |->
        CASE f = "f_ts"   -> ConverterFunctionDefinition("ts", None, None)
          [] f = "f_hs"   -> ConverterFunctionDefinition("hs", None, None)
          [] f = "f_both" -> ConverterFunctionDefinition("both", None, None)
          [] f = "f_none" -> ConverterFunctionDefinition("none", None, None)
          [] f = "f_opt"  -> ConverterFunctionDefinition("opt", None, None)
          [] f = "f_lt"   -> ConverterFunctionDefinition("ts", Some(C_lt), None)
          [] f = "f_pt"   -> ConverterFunctionDefinition("ts", None, Some(C_pt))
          [] f = "f_ltn"  -> ConverterFunctionDefinition("none", Some(C_lt), Some(C_pt))]

(***************************************************************************)
(* The input tree and glob / exclude matching                              *)
(***************************************************************************)
\* the files below the input root, as root-relative paths in discovery order
InputTree == <<P_a_csv, P_d_a_csv, P_v_mp4, P_d_v_mp4, P_n_txt, P_d_n_txt>>

\* input_path.glob(mapping.file_pattern) for the two pattern forms
GlobMatches(pattern, path) ==
    /\ EndsWith(path, <<".">> \o pattern.ext)
    /\ pattern.recursive \/ "/" \notin Range(path)

Glob(pattern) == SelectSeq(InputTree, LAMBDA p : GlobMatches(pattern, p))

\* re.match(pattern, string) for a pattern without metacharacters: the
\* pattern must match at the start of the string
ReMatch(pattern, string) == StartsWith(string, pattern)

\* the string the exclude pattern is matched against: relative_path.name
ExcludeSubject(relative_path) == PathName(relative_path)

\* mapping.exclude_file_pattern and re.match(mapping.exclude_file_pattern, ...)
Excluded(mapping, relative_path) ==
    /\ mapping.exclude_file_pattern.some
    /\ mapping.exclude_file_pattern.v # <<>>
    /\ ReMatch(mapping.exclude_file_pattern.v, ExcludeSubject(relative_path))

\* the (mapping, input_file) tuples one mapping contributes
TuplesOfMapping(mapping, rule) ==
    LET kept == SelectSeq(Glob(mapping.file_pattern),
                          LAMBDA p : ~Excluded(mapping, p))
    IN  [j \in 1..Len(kept) |->
            [mapping |-> mapping, rule |-> rule, file |-> kept[j]]]

\* McapConverter._process_file_mappings
RECURSIVE ProcessFrom(_, _)
ProcessFrom(mappings, i) ==
    IF i > Len(mappings) THEN <<>>
    ELSE TuplesOfMapping(mappings[i], i) \o ProcessFrom(mappings, i + 1)

_process_file_mappings(mappings) == ProcessFrom(mappings, 1)

(***************************************************************************)
(* Tables (pandas DataFrame): typed columns and rows of cells              *)
(***************************************************************************)
Int64 == [kind |-> "i", itemsize |-> 8]

Float64 == [kind |-> "f", itemsize |-> 8]

Bool == [kind |-> "b", itemsize |-> 1]

\* numpy datetime64[ns]
Datetime64 == [kind |-> "M", itemsize |-> 8]

\* numpy object dtype
Object == [kind |-> "O", itemsize |-> 8]

\* pd.CategoricalDtype: its kind is "O"
Categorical == [kind |-> "O", itemsize |-> 8, categories |-> TRUE]

Column(name, dtype) == [name |-> name, dtype |-> dtype]

\* the rows a table file may hold: cells for the columns sec, nsec, l.t, pt
RowMenu == { <<1, 500000000, 7, 9>>, <<2, 1, 3, 4>>, <<NaN, 0, 5, 6>> }

PlainColumns ==
    <<Column(C_sec, Float64), Column(C_nsec, Int64),
      Column(C_lt_raw, Int64), Column(C_pt, Int64)>>

\* a table file: with or without a column named timestamp
MakeTable(with_timestamp, rows) ==
    IF with_timestamp
    THEN [columns |-> <<Column(C_timestamp, Float64)>> \o PlainColumns,
          rows |-> [i \in 1..Len(rows) |-> <<11>> \o rows[i]]]
    ELSE [columns |-> PlainColumns, rows |-> rows]

\* the column-name clean-up applied right after load_tabular_data
SanitizeColumns(table) ==
    [table EXCEPT !.columns =
        [i \in 1..Len(table.columns) |->
            Column(SanitizeColumn(table.columns[i].name), table.columns[i].dtype)]]

HasColumn(df, key) == \E i \in 1..Len(df.columns) : df.columns[i].name = key

\* row[key] of df.iterrows(), r counted from 1
Cell(df, r, key) ==
    df.rows[r][CHOOSE i \in 1..Len(df.columns) : df.columns[i].name = key]

\* the index label iterrows yields for the r-th row (a RangeIndex from 0)
RowIndex(r) == r - 1

(***************************************************************************)
(* Messages (Python dicts): the keys the writers inspect are record        *)
(* fields, every other key lives in the ordered key/value list `fields`    *)
(***************************************************************************)
AbsentStamp == [k |-> "absent", sec |-> 0, nsec |-> 0]

Stamp(sec, nsec) == [k |-> "pair", sec |-> sec, nsec |-> nsec]

\* a value under the key that is not a {sec, nsec} mapping
ScalarStamp(value) == [k |-> "scalar", sec |-> value, nsec |-> 0]

AbsentData == [k |-> "absent", v |-> 0]

EmptyMsg ==
    [timestamp |-> AbsentStamp, header |-> AbsentStamp, data |-> AbsentData,
     frame_id |-> "", format |-> "", fields |-> <<>>]

\* message[key] = value on a dict
RECURSIVE DictSet(_, _, _)
DictSet(fields, key, value) ==
    IF fields = <<>> THEN <<[key |-> key, value |-> value]>>
    ELSE IF Head(fields).key = key
         THEN <<[key |-> key, value |-> value]>> \o Tail(fields)
         ELSE <<Head(fields)>> \o DictSet(Tail(fields), key, value)

SetKey(msg, key, value) ==
    IF key = C_timestamp
    THEN [msg EXCEPT !.timestamp = ScalarStamp(value)]
    ELSE [msg EXCEPT !.fields = DictSet(msg.fields, key, value)]

(***************************************************************************)
(* converter/functions.py                                                  *)
(***************************************************************************)
Failure == [ok |-> FALSE, msg |-> EmptyMsg]

Success(msg) == [ok |-> TRUE, msg |-> msg]

TemplateColumns(template) ==
    IF template = "none" THEN {} ELSE {C_sec, C_nsec}

\* ConverterFunction.convert_row: NaN cells become None, the template is
\* rendered with the row as context (StrictUndefined: a missing column is an
\* error) and the text is parsed as JSON (a rendered None is not JSON)
convert_row(definition, df, r) ==
    LET needed == TemplateColumns(definition.template)
    IN  IF \E c \in needed : ~HasColumn(df, c) \/ Cell(df, r, c) = NaN
        THEN Failure
        ELSE LET sec == Cell(df, r, C_sec)
                 nsec == Cell(df, r, C_nsec)
             IN CASE definition.template = "ts" ->
                       Success([EmptyMsg EXCEPT !.timestamp = Stamp(sec, nsec)])
                  [] definition.template = "hs" ->
                       Success([EmptyMsg EXCEPT !.header = Stamp(sec, nsec)])
                  [] definition.template = "both" ->
                       Success([EmptyMsg EXCEPT !.timestamp = Stamp(sec, nsec),
                                                !.header = Stamp(sec - 1, nsec)])
                  [] definition.template = "opt" /\ sec = 1 ->
                       Success([EmptyMsg EXCEPT !.timestamp = Stamp(sec, nsec)])
                  [] OTHER -> Success(EmptyMsg)

\* "Convert pandas/numpy types to Python native types": tolist() and item()
\* keep the value, a pandas Timestamp becomes to_pydatetime().isoformat()
NativeValue(value) == IF value = Cells.timestamp THEN Cells.iso_text ELSE value

\* isinstance(value, list), after tolist()
IsList(value) == value \in {Cells.empty_seq, Cells.seq_of_null}

\* pd.notna(value) of a scalar
NotNa(value) == value \notin {NaN, Null}

\* a copy that keeps a value only when it is truthy: an empty sequence is lost
CopiedValueIfTruthy(value) ==
    IF NotNa(NativeValue(value)) /\ NativeValue(value) # Cells.empty_seq
    THEN NativeValue(value) ELSE Null

\* value if isinstance(value, list) or pd.notna(value) else None, on the
\* native value
CopiedValue(value) ==
    IF IsList(NativeValue(value)) \/ NotNa(NativeValue(value))
    THEN NativeValue(value) ELSE Null

RECURSIVE CopyColumns(_, _, _, _)
CopyColumns(message, schema_keys, df, r) ==
    IF schema_keys = <<>> THEN message
    ELSE CopyColumns(
            SetKey(message, Head(schema_keys).msg_key,
                   CopiedValue(Cell(df, r, Head(schema_keys).row_key))),
            Tail(schema_keys), df, r)

\* a generic conversion that copies the columns first and lets the template's
\* timestamp and header replace what was copied
GenericCopyThenTemplate(schema_keys, definition, df, r) ==
    LET message == convert_row(definition, df, r)
        copied == CopyColumns(EmptyMsg, schema_keys, df, r)
    IN  IF ~message.ok THEN Failure
        ELSE Success([copied EXCEPT
                !.timestamp = IF message.msg.timestamp.k = "absent"
                              THEN copied.timestamp ELSE message.msg.timestamp,
                !.header = message.msg.header])

\* generate_generic_converter_func(schema_keys, converter_func).convert_row
generic_convert_row(schema_keys, definition, df, r) ==
    LET message == convert_row(definition, df, r)
    IN  IF ~message.ok THEN Failure
        ELSE Success(CopyColumns(message.msg, schema_keys, df, r))

(***************************************************************************)
(* Schema generation of the two backends                                   *)
(***************************************************************************)
FieldType(t, bits) == [t |-> t, bits |-> bits]

Field(name, type) == [name |-> name, type |-> type]

SchemaKey(msg_key, row_key) == [msg_key |-> msg_key, row_key |-> row_key]

\* the {sec, nsec} object of the JSON backend
JsonTimeType == FieldType("time", 0)

\* builtin_interfaces/Time of the ROS2 backend
Ros2TimeType == FieldType("builtin_interfaces/Time", 0)

\* the pd.api.types chain of JsonConverter.register_generic_schema
JsonFieldType(dtype) ==
    CASE dtype.kind \in {"i", "u"} -> FieldType("integer", 0)
      [] dtype.kind = "f" -> FieldType("number", 0)
      [] dtype.kind = "b" -> FieldType("boolean", 0)
      [] OTHER -> FieldType("string", 0)

\* the property the JSON backend writes for one kept column
JsonProperty(column) ==
    IF column.name = C_timestamp
    THEN Field(column.name, JsonTimeType)
    ELSE Field(column.name, JsonFieldType(column.dtype))

\* the properties the JSON schema starts with, before the columns are added
JsonInitialProperties == <<>>

\* properties[key] = ... on the schema's dict
RECURSIVE PropertySet(_, _)
PropertySet(properties, field) ==
    IF properties = <<>> THEN <<field>>
    ELSE IF Head(properties).name = field.name
         THEN <<field>> \o Tail(properties)
         ELSE <<Head(properties)>> \o PropertySet(Tail(properties), field)

RECURSIVE JsonProperties(_, _)
JsonProperties(properties, columns) ==
    IF columns = <<>> THEN properties
    ELSE JsonProperties(PropertySet(properties, JsonProperty(Head(columns))),
                        Tail(columns))

\* JsonConverter.register_generic_schema: the schema's fields and schema_keys
JsonGenericSchema(df, exclude_keys) ==
    LET columns == SelectSeq(df.columns, LAMBDA c : c.name \notin Range(exclude_keys))
    IN  [fields |-> JsonProperties(JsonInitialProperties, columns),
         schema_keys |-> [i \in 1..Len(columns) |->
                             SchemaKey(columns[i].name, columns[i].name)]]

\* f"{type}[]"
ArrayOf(type) == FieldType(type.t \o "[]", type.bits)

\* sample_data.dtype of a sequence sample: an empty array is float64, an
\* array that holds a null is an object array
SampleDtype(sample_data) ==
    IF sample_data = Cells.empty_seq THEN Float64 ELSE Object

\* numpy_to_ros2_type(dtype) without sample data
numpy_to_ros2_type_of(dtype) ==
    CASE dtype.kind = "b" -> FieldType("bool", 0)
      [] dtype.kind = "i" -> FieldType("int", dtype.itemsize * 8)
      [] dtype.kind = "u" -> FieldType("uint", dtype.itemsize * 8)
      [] dtype.kind = "f" -> FieldType("float", dtype.itemsize * 8)
      [] dtype.kind = "O" -> ArrayOf(FieldType("string", 0))
      [] OTHER -> FieldType("string", 0)

\* numpy_to_ros2_type(dtype, sample_data): an object column is typed by its
\* sample, string[] when there is none
numpy_to_ros2_type(dtype, sample_data) ==
    IF dtype.kind = "O"
    THEN IF ~sample_data.some THEN ArrayOf(FieldType("string", 0))
         ELSE IF sample_data.v = Cells.text THEN FieldType("string", 0)
         ELSE ArrayOf(numpy_to_ros2_type_of(SampleDtype(sample_data.v)))
    ELSE numpy_to_ros2_type_of(dtype)

\* df[key].dropna(): the cells of the column that are not null
NonNullValues(df, key) ==
    SelectSeq([r \in 1..Len(df.rows) |-> Cell(df, r, key)], NotNa)

\* sample_data of register_generic_schema: the first non-null value of an
\* object column, None for another column or when there is none
SampleData(df, key, dtype) ==
    IF dtype.kind = "O" /\ Len(NonNullValues(df, key)) > 0
    THEN Some(NonNullValues(df, key)[1]) ELSE None

\* type_var_name_pairs before the columns are added
Ros2InitialPairs == <<Field(C_timestamp, Ros2TimeType)>>

\* schema_keys[ros2_key] = key on a dict
RECURSIVE SchemaKeySet(_, _)
SchemaKeySet(schema_keys, entry) ==
    IF schema_keys = <<>> THEN <<entry>>
    ELSE IF Head(schema_keys).msg_key = entry.msg_key
         THEN <<entry>> \o Tail(schema_keys)
         ELSE <<Head(schema_keys)>> \o SchemaKeySet(Tail(schema_keys), entry)

RECURSIVE Ros2SchemaFrom(_, _, _, _)
Ros2SchemaFrom(acc, df, columns, exclude_keys) ==
    IF columns = <<>> THEN acc
    ELSE LET c == Head(columns)
             ros2_key == sanitize_ros2_field_name(c.name)
         IN  IF exclude_keys # <<>> /\ c.name \in Range(exclude_keys)
             THEN Ros2SchemaFrom(acc, df, Tail(columns), exclude_keys)
             ELSE Ros2SchemaFrom(
                    [fields |-> Append(acc.fields,
                                  Field(ros2_key,
                                        numpy_to_ros2_type(c.dtype,
                                            SampleData(df, c.name, c.dtype)))),
                     schema_keys |-> SchemaKeySet(acc.schema_keys,
                                                  SchemaKey(ros2_key, c.name))],
                    df, Tail(columns), exclude_keys)

\* Ros2Converter.register_generic_schema: the message definition's fields
\* and schema_keys
Ros2GenericSchema(df, exclude_keys) ==
    Ros2SchemaFrom([fields |-> Ros2InitialPairs, schema_keys |-> <<>>],
                   df, df.columns, exclude_keys)

GenericSchema(writer_format, df, exclude_keys) ==
    IF writer_format = "ros2"
    THEN Ros2GenericSchema(df, exclude_keys)
    ELSE JsonGenericSchema(df, exclude_keys)

\* the generated logical schema name of a spec without schema_name
GeneratedSchemaName(writer_format, topic_name) ==
    IF writer_format = "ros2"
    THEN sanitize_schema_name(topic_name)
    ELSE JsonGenericSchemaName(topic_name)

\* the predefined schema catalog (tabular2mcap.schemas): get_foxglove_jsonschema
\* and get_schema_definition fail on a name the catalog does not hold
CatalogNames(writer_format) ==
    IF writer_format = "ros2"
    THEN {Ros2CompressedImage, Ros2CompressedVideo, Ros2LocationFix}
    ELSE {JsonCompressedImage, JsonCompressedVideo, JsonLocationFix}

\* a backend that registers whatever name it is given
CanRegisterAnySchema(writer_format, schema_name) == TRUE

\* register_schema(schema_name) succeeds: the JSON backend takes only names
\* that start with "foxglove.", and the catalog must hold the name
CanRegisterSchema(writer_format, schema_name) ==
    /\ writer_format = "json" => StartsWith(schema_name, FoxglovePrefix)
    /\ schema_name \in CatalogNames(writer_format)

(***************************************************************************)
(* Timestamps                                                              *)
(***************************************************************************)
\* a conversion that drops the nanoseconds of the pair
StampNsSecondsOnly(sec, nsec) == sec * NsPerSec

\* sec * 1_000_000_000 + nsec
StampNs(sec, nsec) == sec * NsPerSec + nsec

NoTime == [ok |-> FALSE, ns |-> 0]

TimeOf(ns) == [ok |-> TRUE, ns |-> ns]

\* subscripting msg["timestamp"] / msg["header"]["stamp"]: a value that is
\* not a mapping raises
PairNs(stamp) ==
    IF stamp.k = "pair" THEN TimeOf(StampNs(stamp.sec, stamp.nsec)) ELSE NoTime

\* a precedence that consults header.stamp before timestamp
Ros2BufTimeHeaderFirst(msg) ==
    IF msg.header.k # "absent" THEN PairNs(msg.header)
    ELSE IF msg.timestamp.k # "absent" THEN PairNs(msg.timestamp)
    ELSE NoTime

\* a write loop that falls back to time 0 when the message has no time
Ros2BufTimeDefaulting(msg) ==
    IF msg.timestamp.k # "absent" THEN PairNs(msg.timestamp)
    ELSE IF msg.header.k # "absent" THEN PairNs(msg.header)
    ELSE TimeOf(0)

\* Ros2Converter.write_messages_from_iterator: buf_time_ns of one message, or
\* the raised error
Ros2BufTime(msg) ==
    IF msg.timestamp.k # "absent" THEN PairNs(msg.timestamp)
    ELSE IF msg.header.k # "absent" THEN PairNs(msg.header)
    ELSE NoTime

\* int(render(time_template)) with the row as context; the two time templates
\* of the model render one column
RenderTime(time_template, df, r) ==
    IF HasColumn(df, time_template.v) /\ Cell(df, r, time_template.v) # NaN
    THEN TimeOf(Cell(df, r, time_template.v))
    ELSE NoTime

\* log_time_ns of a ConvertedRow: the template, else timestamp, else
\* header.stamp, else an error
ResolveLogTime(definition, df, r, msg) ==
    IF definition.log_time_template.some
    THEN RenderTime(definition.log_time_template, df, r)
    ELSE IF msg.timestamp.k = "pair" THEN PairNs(msg.timestamp)
    ELSE IF msg.header.k = "pair" THEN PairNs(msg.header)
    ELSE NoTime

\* publish_time_ns of a ConvertedRow: the template, else the log time
ResolvePublishTime(definition, df, r, log_time) ==
    IF definition.publish_time_template.some
    THEN RenderTime(definition.publish_time_template, df, r)
    ELSE log_time

\* the ConvertedRow (data, log_time_ns, publish_time_ns) the JSON backend reads
ConvertedRow(definition, df, r, msg) ==
    LET log_time == ResolveLogTime(definition, df, r, msg)
        publish_time == ResolvePublishTime(definition, df, r, log_time)
    IN  [ok |-> log_time.ok /\ publish_time.ok, data |-> msg,
         log_time_ns |-> log_time.ns, publish_time_ns |-> publish_time.ns]

\* a mapping without converter function (image / video frames)
NoDefinition == ConverterFunctionDefinition("none", None, None)

\* an empty table, the row context of a frame
NoTable == [columns |-> <<>>, rows |-> <<>>]

(***************************************************************************)
(* converter/others.py: frames of an image / video file                    *)
(***************************************************************************)
\* load_video_data(input_file): the frames (their content) and the fps
VideoData(path) ==
    IF path = P_v_mp4 THEN [frames |-> <<21, 22>>, fps |-> 2]
    ELSE [frames |-> <<23>>, fps |-> 2]

\* the message of frame frame_idx (from 0): timestamp frame_idx / fps
FrameMessage(other_mapping, video, frame_idx) ==
    [EmptyMsg EXCEPT
        !.timestamp = Stamp(frame_idx \div video.fps,
                            ((frame_idx % video.fps) * NsPerSec) \div video.fps),
        !.frame_id = other_mapping.frame_id,
        !.data = [k |-> "bytes", v |-> video.frames[frame_idx + 1]],
        !.format = other_mapping.format]

\* an encoding step that turns every present "data" value into base64 text
JsonEncodeAnyData(msg) ==
    IF msg.data.k # "absent"
    THEN [msg EXCEPT !.data = [k |-> "base64", v |-> msg.data.v]]
    ELSE msg

\* JsonConverter.write_messages_from_iterator: raw bytes under "data" are
\* replaced by their base64 text before json.dumps
JsonEncode(msg) ==
    IF msg.data.k = "bytes"
    THEN [msg EXCEPT !.data = [k |-> "base64", v |-> msg.data.v]]
    ELSE msg

(***************************************************************************)
(* Attachment and metadata files                                           *)
(***************************************************************************)
\* the lines of a text file of the tree: "k=v", "x" in n.txt; "k=v=w" in d/n.txt
FileLines(path) ==
    IF path = P_n_txt THEN << <<"k","=","v">>, <<"x">> >>
    ELSE << <<"k","=","v","=","w">> >>

\* input_file.stat(), in whole seconds
FileStat(path) ==
    IF path = P_n_txt THEN [st_birthtime |-> 1, st_ctime |-> 2, st_mtime |-> 2]
    ELSE [st_birthtime |-> 0, st_ctime |-> 1, st_mtime |-> 2]

\* str.split(separator) for a one-character separator
RECURSIVE SplitFrom(_, _, _)
SplitFrom(line, separator, part) ==
    IF line = <<>> THEN <<part>>
    ELSE IF Head(line) = separator
         THEN <<part>> \o SplitFrom(Tail(line), separator, <<>>)
         ELSE SplitFrom(Tail(line), separator, Append(part, Head(line)))

Split(line, separator) == SplitFrom(line, separator, <<>>)

\* str.strip() of blanks
RECURSIVE Strip(_)
Strip(s) ==
    IF s # <<>> /\ Head(s) = " " THEN Strip(Tail(s))
    ELSE IF s # <<>> /\ s[Len(s)] = " " THEN Strip(SubSeq(s, 1, Len(s) - 1))
    ELSE s

\* the metadata_dict comprehension of _process_metadata
RECURSIVE MetadataDict(_, _, _)
MetadataDict(lines, separator, acc) ==
    IF lines = <<>> THEN acc
    ELSE LET kv == Split(Strip(Head(lines)), separator)
         IN  MetadataDict(Tail(lines), separator,
                IF Len(kv) >= 2
                THEN DictSet(acc, Strip(kv[1]), Strip(kv[2]))
                ELSE acc)

(***************************************************************************)
(* The runs the model explores: configuration, tables, platform            *)
(***************************************************************************)
CsvAll == GlobPattern(TRUE, Ext_csv)

CsvTop == GlobPattern(FALSE, Ext_csv)

Mp4All == GlobPattern(TRUE, Ext_mp4)

TxtAll == GlobPattern(TRUE, Ext_txt)

LocationFixName(writer_format) ==
    IF writer_format = "ros2" THEN Ros2LocationFix ELSE JsonLocationFix

UnknownSchemaName(writer_format) ==
    IF writer_format = "ros2" THEN Ros2Unknown ELSE JsonUnknown

TwoRows == << <<1, 500000000, 7, 9>>, <<2, 1, 3, 4>> >>

\* both table files hold the same kind of table
Tables(with_timestamp, rows) ==
    [p \in {P_a_csv, P_d_a_csv} |-> MakeTable(with_timestamp, rows)]

Config(writer_format, tabular_mappings, other_mappings, attachments, metadata, tables, has_birthtime) ==
    [writer_format |-> writer_format, tabular_mappings |-> tabular_mappings,
     other_mappings |-> other_mappings, attachments |-> attachments,
     metadata |-> metadata, tables |-> tables, has_birthtime |-> has_birthtime,
     topic_prefix |-> <<>>, test_mode |-> FALSE]

MetadataConfig(file_pattern, exclude_file_pattern) ==
    [file_pattern |-> file_pattern, exclude_file_pattern |-> exclude_file_pattern,
     separator |-> "="]

ImageMapping(exclude_file_pattern) ==
    OtherMappingConfig("compressed_image", Mp4All, exclude_file_pattern, Suffix_s)

VideoMapping(exclude_file_pattern) ==
    OtherMappingConfig("compressed_video", Mp4All, exclude_file_pattern, Suffix_t)

\* runs that vary the file patterns and exclude patterns of the four rule kinds
MatchingConfigs ==
    { Config(wf,
             <<TabularMappingConfig(gp, ex,
                 <<ConverterFunctionConfig("f_ts", Some(LocationFixName(wf)),
                                           Suffix_s, None)>>)>>,
             <<ImageMapping(oex)>>,
             <<FileMatchingConfig(TxtAll, aex)>>,
             <<MetadataConfig(TxtAll, mex)>>,
             Tables(FALSE, TwoRows), hb) :
        wf \in SUPPORT_WRITER_FORMATS, gp \in {CsvAll, CsvTop},
        ex \in {None, Some(Re_d), Some(Re_a)}, oex \in {None, Some(Re_v)},
        aex \in {None, Some(Re_d)}, mex \in {None, Some(Re_n)},
        hb \in BOOLEAN }

\* the converter specs the schema runs draw from
SpecMenu(wf) ==
    { ConverterFunctionConfig("f_ts", None, Suffix_s, None),
      ConverterFunctionConfig("f_ts", None, Suffix_s, Some(<<C_timestamp>>)),
      ConverterFunctionConfig("f_ts", Some(LocationFixName(wf)), Suffix_s, None),
      ConverterFunctionConfig("f_hs", Some(OtherSchemaName("compressed_image", wf)),
                              Suffix_t, None),
      ConverterFunctionConfig("f_ts", Some(UnknownSchemaName(wf)), Suffix_s, None),
      ConverterFunctionConfig("nope", None, Suffix_s, None) }

\* a second tabular rule that matches a.csv again
SecondRule ==
    TabularMappingConfig(CsvTop, None,
        <<ConverterFunctionConfig("f_ts", None, Suffix_s, None)>>)

\* runs that vary the converter specs, the tables' columns and the rules
SchemaConfigsOf(wf) ==
    { Config(wf, <<TabularMappingConfig(CsvAll, None, specs)>>,
             other, <<>>, <<>>, Tables(wt, TwoRows), FALSE) :
        specs \in SeqsFromTo(SpecMenu(wf), 1, MaxSpecs),
        other \in {<<>>, <<ImageMapping(None), VideoMapping(Some(Re_d))>>},
        wt \in BOOLEAN }
    \cup
    { Config(wf, <<TabularMappingConfig(CsvAll, None, <<spec>>), SecondRule>>,
             <<>>, <<>>, <<>>, Tables(wt, TwoRows), FALSE) :
        spec \in SpecMenu(wf), wt \in BOOLEAN }

SchemaConfigs == UNION {SchemaConfigsOf(wf) : wf \in SUPPORT_WRITER_FORMATS}

\* runs that vary the converter function and the rows of one table
TimeConfigsOf(wf) ==
    { Config(wf,
             <<TabularMappingConfig(CsvTop, None,
                 <<ConverterFunctionConfig(f, sn, Suffix_s, None)>>)>>,
             <<>>, <<>>, <<>>, Tables(FALSE, rows), FALSE) :
        f \in DOMAIN converter_functions,
        sn \in {None, Some(LocationFixName(wf))},
        rows \in SeqsUpTo(RowMenu, MaxRows) }

TimeConfigs == UNION {TimeConfigsOf(wf) : wf \in SUPPORT_WRITER_FORMATS}

\* runs with a writer format the configuration model accepts and convert rejects
UnsupportedConfigs ==
    { Config(wf,
             <<TabularMappingConfig(CsvAll, None,
                 <<ConverterFunctionConfig("f_ts", None, Suffix_s, None)>>)>>,
             <<>>, <<FileMatchingConfig(TxtAll, None)>>, <<>>,
             Tables(FALSE, TwoRows), FALSE) :
        wf \in WRITER_FORMATS \ SUPPORT_WRITER_FORMATS }

\* runs whose second converter spec names a schema the JSON backend refuses
\* for its missing "foxglove." prefix
UnprefixedConfigs ==
    { Config("json",
             <<TabularMappingConfig(gp, None,
                 <<ConverterFunctionConfig("f_ts", Some(JsonLocationFix), Suffix_s, None),
                   ConverterFunctionConfig("f_ts", Some(PlainUnknown), Suffix_t, None)>>)>>,
             <<>>, <<>>, <<>>, Tables(FALSE, TwoRows), FALSE) :
        gp \in {CsvAll, CsvTop} }

\* "p_"
Prefix_p == <<"p","_">>

\* runs with a topic prefix, a tabular rule and an image mapping
PrefixConfigs ==
    { [Config(wf,
              <<TabularMappingConfig(CsvAll, None,
                  <<ConverterFunctionConfig("f_ts", Some(LocationFixName(wf)),
                                            Suffix_s, None)>>)>>,
              <<ImageMapping(None)>>, <<>>, <<>>, Tables(FALSE, TwoRows), FALSE)
          EXCEPT !.topic_prefix = Prefix_p] :
        wf \in SUPPORT_WRITER_FORMATS }

\* a table of more rows than the test-mode limit, every row with a time
SixRows == [i \in 1..6 |-> <<1, i, 7, 9>>]

\* runs with and without --test-mode on a table shorter and a table longer
\* than the limit, with a generic and a template spec
TestModeConfigs ==
    { [Config(wf,
              <<TabularMappingConfig(CsvTop, None,
                  <<ConverterFunctionConfig("f_ts", None, Suffix_s, None),
                    ConverterFunctionConfig("f_ts", Some(LocationFixName(wf)),
                                            Suffix_t, None)>>)>>,
              <<>>, <<>>, <<>>, Tables(FALSE, rows), FALSE)
          EXCEPT !.test_mode = tm] :
        wf \in SUPPORT_WRITER_FORMATS, rows \in {TwoRows, SixRows},
        tm \in BOOLEAN }

\* "val"
C_val == <<"v","a","l">>

\* a column's value type with the cells a column of that type may hold
CellMenu ==
    { [dtype |-> Float64, cells |-> {7, NaN}],
      [dtype |-> Int64, cells |-> {7}],
      [dtype |-> Bool, cells |-> {1}],
      [dtype |-> Datetime64, cells |-> {Cells.timestamp}],
      [dtype |-> Categorical, cells |-> {Cells.text}],
      [dtype |-> Object, cells |-> {Cells.text, Null}],
      [dtype |-> Object, cells |-> {Cells.empty_seq, Cells.seq_of_null, Null}] }

\* tables of two rows with the columns sec, nsec and val
CellTables ==
    UNION { { [columns |-> <<Column(C_sec, Float64), Column(C_nsec, Int64),
                             Column(C_val, m.dtype)>>,
               rows |-> << <<1, 5, x>>, <<1, 6, y>> >>] :
                x \in m.cells, y \in m.cells } : m \in CellMenu }

\* runs of a generic spec on a table whose third column varies in value type
\* and in cells
CellConfigs ==
    { Config(wf,
             <<TabularMappingConfig(CsvTop, None,
                 <<ConverterFunctionConfig("f_ts", None, Suffix_s, None)>>)>>,
             <<>>, <<>>, <<>>, [p \in {P_a_csv, P_d_a_csv} |-> t], FALSE) :
        wf \in SUPPORT_WRITER_FORMATS, t \in CellTables }

\* "a -.b#": a run of three separators and a character outside the word set
C_run_raw == <<"a"," ","-",".","b","#">>

\* "x_y"
C_x_y == <<"x","_","y">>

\* a table with a column name that holds a run of separators
SeparatorTable ==
    [columns |-> <<Column(C_sec, Float64), Column(C_nsec, Int64),
                   Column(C_run_raw, Int64), Column(C_x_y, Int64)>>,
     rows |-> << <<1, 5, 7, 9>>, <<1, 6, 3, 4>> >>]

\* runs of a generic spec on the table with the run of separators
SeparatorConfigs ==
    { Config(wf,
             <<TabularMappingConfig(CsvTop, None,
                 <<ConverterFunctionConfig("f_ts", None, Suffix_s, None)>>)>>,
             <<>>, <<>>, <<>>, [p \in {P_a_csv, P_d_a_csv} |-> SeparatorTable], FALSE) :
        wf \in SUPPORT_WRITER_FORMATS }

Configs ==
    CellConfigs \cup MatchingConfigs \cup SchemaConfigs \cup TimeConfigs \cup UnsupportedConfigs
        \cup UnprefixedConfigs \cup PrefixConfigs \cup TestModeConfigs
        \cup SeparatorConfigs

(***************************************************************************)
(* State                                                                   *)
(***************************************************************************)
VARIABLES
    cfg,            \* configuration, tables and platform of this run (inputs)
    pc,             \* position of convert(): start, prepare, tabular, spec, row,
                    \* other, frame, attachments, metadata, finish, done, aborted
    opened,         \* the output file has been opened
    mapping_tuples, \* _prepare_mapping_tuples: kind -> (mapping, file) tuples
    ti,             \* index of the tuple being processed in the current phase
    df,             \* the loaded table of the current tabular tuple
    si,             \* index of the converter spec being run
    ri,             \* index of the row / frame the write loop is at
    cur,            \* locals of the running write_messages_from_iterator call
    schema_ids,     \* McapConverter._schema_ids: schema name -> handle
    schemas,        \* writer: registered schemas, the handle is the position
    channels,       \* writer: registered channels
    messages,       \* writer: written messages
    streams,        \* history: the write_messages_from_iterator calls
    attachments,    \* writer: attachments
    metadata,       \* writer: metadata records
    finished,       \* writer.finish() was called
    error           \* the raised error, "" when none

vars == <<cfg, pc, opened, mapping_tuples, ti, df, si, ri, cur, schema_ids,
          schemas, channels, messages, streams, attachments, metadata,
          finished, error>>

NoCur ==
    [topic_name |-> <<>>, schema_id |-> 0, schema_keys |-> <<>>,
     mode |-> "", function_name |-> "", channel_id |-> 0, stream |-> 0]

Init ==
    /\ cfg \in Configs
    /\ pc = "start"
    /\ opened = FALSE
    /\ mapping_tuples = [tabular |-> <<>>, other |-> <<>>,
                         attachments |-> <<>>, metadata |-> <<>>]
    /\ ti = 1
    /\ df = NoTable
    /\ si = 1
    /\ ri = 1
    /\ cur = NoCur
    /\ schema_ids = <<>>
    /\ schemas = <<>>
    /\ channels = <<>>
    /\ messages = <<>>
    /\ streams = <<>>
    /\ attachments = <<>>
    /\ metadata = <<>>
    /\ finished = FALSE
    /\ error = ""

(***************************************************************************)
(* The writers (mcap.writer.Writer, mcap_ros2.writer.Writer) as the code   *)
(* calls them                                                              *)
(***************************************************************************)
\* writer.register_schema / register_msgdef: a new schema, its handle
Schema(name, via, fields) == [name |-> name, via |-> via, fields |-> fields]

NextSchemaId == Len(schemas) + 1

Channel(topic, schema_id) == [topic |-> topic, schema_id |-> schema_id]

HasChannel(chs, topic) == \E i \in 1..Len(chs) : chs[i].topic = topic

ChannelOf(chs, topic) == CHOOSE i \in 1..Len(chs) : chs[i].topic = topic

\* the channels after the backend opened the channel of a write call: the
\* JSON backend registers a channel per call
JsonRegisterChannel(chs, topic, schema_id) == Append(chs, Channel(topic, schema_id))

\* the ROS2 writer registers a channel on the first message of a topic
Ros2EnsureChannel(chs, topic, schema_id) ==
    IF HasChannel(chs, topic) THEN chs ELSE Append(chs, Channel(topic, schema_id))

Message(stream, channel_id, topic, log_time, publish_time, sequence, data, row) ==
    [stream |-> stream, channel_id |-> channel_id, topic |-> topic,
     log_time |-> log_time, publish_time |-> publish_time,
     sequence |-> sequence, data |-> data, row |-> row]

(***************************************************************************)
(* convert(): start, glob resolution, phases                               *)
(***************************************************************************)
\* the writer_format check and the opening of the output file
Start ==
    /\ pc = "start"
    /\ IF cfg.writer_format \notin SUPPORT_WRITER_FORMATS
       THEN /\ pc' = "aborted"
            /\ error' = "unsupported writer format"
            /\ opened' = opened
       ELSE /\ pc' = "prepare"
            /\ error' = error
            /\ opened' = TRUE
    /\ UNCHANGED <<cfg, mapping_tuples, ti, df, si, ri, cur, schema_ids, schemas,
                   channels, messages, streams, attachments, metadata, finished>>

\* McapConverter._prepare_mapping_tuples
Prepare ==
    /\ pc = "prepare"
    /\ mapping_tuples' =
          [tabular |-> _process_file_mappings(cfg.tabular_mappings),
           other |-> _process_file_mappings(cfg.other_mappings),
           attachments |-> _process_file_mappings(cfg.attachments),
           metadata |-> _process_file_mappings(cfg.metadata)]
    /\ pc' = "tabular"
    /\ ti' = 1
    /\ UNCHANGED <<cfg, opened, df, si, ri, cur, schema_ids, schemas, channels,
                   messages, streams, attachments, metadata, finished, error>>

\* a convert that processes the attachments before the other mappings
NextPhaseAttachmentsEarly(phase) ==
    CASE phase = "tabular" -> "attachments"
      [] phase = "attachments" -> "other"
      [] phase = "other" -> "metadata"
      [] OTHER -> "finish"

\* a convert that goes from the attachments straight to finish
NextPhaseSkippingMetadata(phase) ==
    CASE phase = "tabular" -> "other"
      [] phase = "other" -> "attachments"
      [] OTHER -> "finish"

NextPhase(phase) ==
    CASE phase = "tabular" -> "other"
      [] phase = "other" -> "attachments"
      [] phase = "attachments" -> "metadata"
      [] OTHER -> "finish"

\* a phase's loop over its mapping tuples is exhausted
EndPhase ==
    /\ pc \in {"tabular", "other", "attachments", "metadata"}
    /\ ti > Len(mapping_tuples[pc])
    /\ pc' = NextPhase(pc)
    /\ ti' = 1
    /\ UNCHANGED <<cfg, opened, mapping_tuples, df, si, ri, cur, schema_ids,
                   schemas, channels, messages, streams, attachments, metadata,
                   finished, error>>

\* self._writer.finish()
Finish ==
    /\ pc = "finish"
    /\ finished' = TRUE
    /\ pc' = "done"
    /\ UNCHANGED <<cfg, opened, mapping_tuples, ti, df, si, ri, cur, schema_ids,
                   schemas, channels, messages, streams, attachments, metadata,
                   error>>

(***************************************************************************)
(* McapConverter._process_tabular_mappings                                 *)
(***************************************************************************)
\* the row limit of test mode, df.head(5)
TestModeRows == 5

DfHead(table, n) ==
    [table EXCEPT !.rows = SubSeq(table.rows, 1,
                                  IF Len(table.rows) < n THEN Len(table.rows) ELSE n)]

\* a load that ignores the test-mode flag
LoadedTableUntruncated(input_file) == SanitizeColumns(cfg.tables[input_file])

\* load_tabular_data, the column clean-up and the test-mode limit
LoadedTable(input_file) ==
    LET loaded == SanitizeColumns(cfg.tables[input_file])
    IN  IF cfg.test_mode THEN DfHead(loaded, TestModeRows) ELSE loaded

\* top of the loop over the tabular mapping tuples: load the next file
LoadTable ==
    /\ pc = "tabular"
    /\ ti <= Len(mapping_tuples.tabular)
    /\ df' = LoadedTable(mapping_tuples.tabular[ti].file)
    /\ IF mapping_tuples.tabular[ti].mapping.converter_functions = <<>>
       THEN /\ ti' = ti + 1
            /\ UNCHANGED <<pc, si>>
       ELSE /\ pc' = "spec"
            /\ si' = 1
            /\ ti' = ti
    /\ UNCHANGED <<cfg, opened, mapping_tuples, ri, cur, schema_ids, schemas,
                   channels, messages, streams, attachments, metadata, finished,
                   error>>

\* a cache lookup that never finds the name: every use registers again
InSchemaIdsNever(schema_name) == FALSE

\* schema_name in self._schema_ids
InSchemaIds(schema_name) == schema_name \in DOMAIN schema_ids

Resolution(ok, how, schema_name, schema_id, schema_keys, registered) ==
    [ok |-> ok, how |-> how, schema_name |-> schema_name, schema_id |-> schema_id,
     schema_keys |-> schema_keys, registered |-> registered]

\* "# Get or register schema": a predefined schema by name, from the cache or
\* through the backend's register_schema
ResolveNamedSchema(schema_name) ==
    IF InSchemaIds(schema_name)
    THEN Resolution(TRUE, "cached", schema_name, schema_ids[schema_name],
                    <<>>, <<>>)
    ELSE IF CanRegisterSchema(cfg.writer_format, schema_name)
    THEN Resolution(TRUE, "registered", schema_name, NextSchemaId, <<>>,
                    <<Schema(schema_name, "register_schema", <<>>)>>)
    ELSE Resolution(FALSE, "failed", schema_name, 0, <<>>, <<>>)

\* the generic branch: the generated name, register_generic_schema on the table
ResolveGenericSchema(converter_function, topic_name) ==
    LET schema_name == GeneratedSchemaName(cfg.writer_format, topic_name)
        exclude_keys == IF converter_function.exclude_columns.some
                        THEN converter_function.exclude_columns.v ELSE <<>>
        generated == GenericSchema(cfg.writer_format, df, exclude_keys)
    IN  Resolution(TRUE, "generic", schema_name, NextSchemaId,
                   generated.schema_keys,
                   <<Schema(schema_name, "register_generic_schema",
                            generated.fields)>>)

\* "# register schema" of the tabular loop
ResolveTabularSchema(converter_function, topic_name) ==
    IF ~converter_function.schema_name.some
    THEN ResolveGenericSchema(converter_function, topic_name)
    ELSE ResolveNamedSchema(converter_function.schema_name.v)

\* self._schema_ids[schema_name] = schema_id
CacheAfter(res) ==
    IF res.how \in {"generic", "registered"}
    THEN [n \in DOMAIN schema_ids \cup {res.schema_name} |->
            IF n = res.schema_name THEN res.schema_id ELSE schema_ids[n]]
    ELSE schema_ids

\* the channel the backend opens when write_messages_from_iterator starts
ChannelsAtOpen(topic_name, schema_id) ==
    IF cfg.writer_format = "json"
    THEN JsonRegisterChannel(channels, topic_name, schema_id)
    ELSE channels

ChannelIdAtOpen == IF cfg.writer_format = "json" THEN Len(channels) + 1 ELSE 0

Stream(kind, tuple, spec, res, topic_name, mode, function_name, n) ==
    [kind |-> kind, rule |-> tuple.rule, file |-> tuple.file, spec |-> spec,
     topic_name |-> topic_name, schema_name |-> res.schema_name,
     how |-> res.how, schema_id |-> res.schema_id,
     schema_keys |-> res.schema_keys, mode |-> mode,
     function_name |-> function_name, n |-> n, done |-> n = 0]

\* a loop that leaves the file after its first converter spec
AfterSpecNextFile == [pc |-> "tabular", si |-> 1, ti |-> ti + 1]

\* where the tabular loop continues after the spec at si
AfterSpec ==
    IF si < Len(mapping_tuples.tabular[ti].mapping.converter_functions)
    THEN [pc |-> "spec", si |-> si + 1, ti |-> ti]
    ELSE [pc |-> "tabular", si |-> 1, ti |-> ti + 1]

\* a lookup that takes every function name as defined
FunctionAlwaysKnown(function_name) == TRUE

\* converter_function.function_name in self.converter_functions
FunctionKnown(function_name) == function_name \in DOMAIN converter_functions

\* one pass of the loop over the converter specs of the file, up to the start
\* of the write loop: look up the function, build the topic name, resolve the
\* schema, open the channel
RunSpec ==
    /\ pc = "spec"
    /\ LET tuple == mapping_tuples.tabular[ti]
           converter_function == tuple.mapping.converter_functions[si]
           known == FunctionKnown(converter_function.function_name)
           topic_name == TabularTopicName(cfg.topic_prefix, tuple.file,
                                          converter_function.topic_suffix)
           res == ResolveTabularSchema(converter_function, topic_name)
           mode == IF converter_function.schema_name.some
                   THEN "template" ELSE "generic"
           n == Len(df.rows)
       IN  IF ~known \/ ~res.ok
           THEN /\ pc' = "aborted"
                /\ error' = IF ~known THEN "unknown converter function"
                            ELSE "unknown schema"
                /\ UNCHANGED <<ti, si, ri, cur, schema_ids, schemas, channels,
                               streams>>
           ELSE /\ schemas' = schemas \o res.registered
                /\ schema_ids' = CacheAfter(res)
                /\ channels' = ChannelsAtOpen(topic_name, res.schema_id)
                /\ streams' = Append(streams,
                                 Stream("tabular", tuple, si, res, topic_name, mode,
                                        converter_function.function_name, n))
                /\ cur' = [topic_name |-> topic_name, schema_id |-> res.schema_id,
                           schema_keys |-> res.schema_keys, mode |-> mode,
                           function_name |-> converter_function.function_name,
                           channel_id |-> ChannelIdAtOpen,
                           stream |-> Len(streams) + 1]
                /\ ri' = 1
                /\ IF n = 0
                   THEN /\ pc' = AfterSpec.pc
                        /\ si' = AfterSpec.si
                        /\ ti' = AfterSpec.ti
                   ELSE /\ pc' = "row"
                        /\ UNCHANGED <<si, ti>>
                /\ error' = error
    /\ UNCHANGED <<cfg, opened, mapping_tuples, df, messages, attachments,
                   metadata, finished>>

\* an iteration that skips every second row
NextRowSkipping(r) == r + 2

\* for idx, row in df.iterrows(): the position after row r
NextRow(r) == r + 1

\* convert_row of the running spec on row r
ConvertRowOf(mode, schema_keys, function_name, table, r) ==
    IF mode = "generic"
    THEN generic_convert_row(schema_keys, converter_functions[function_name],
                             table, r)
    ELSE convert_row(converter_functions[function_name], table, r)

Written(ok, err, log_time, publish_time, data) ==
    [ok |-> ok, error |-> err, log_time |-> log_time,
     publish_time |-> publish_time, data |-> data]

\* the body of JsonConverter.write_messages_from_iterator for one item
JsonWrite(definition, table, r, msg) ==
    LET converted_row == ConvertedRow(definition, table, r, msg)
    IN  IF ~converted_row.ok
        THEN Written(FALSE, "no timestamp", 0, 0, msg)
        ELSE Written(TRUE, "", converted_row.log_time_ns,
                     converted_row.publish_time_ns,
                     JsonEncode(converted_row.data))

\* the body of Ros2Converter.write_messages_from_iterator for one item
Ros2Write(msg) ==
    LET buf_time_ns == Ros2BufTime(msg)
    IN  IF ~buf_time_ns.ok
        THEN Written(FALSE, "No timestamp found in message", 0, 0, msg)
        ELSE Written(TRUE, "", buf_time_ns.ns, buf_time_ns.ns, msg)

BackendWrite(definition, table, r, msg) ==
    IF cfg.writer_format = "json"
    THEN JsonWrite(definition, table, r, msg)
    ELSE Ros2Write(msg)

\* the writer's state after one written item
ChannelsAfterWrite ==
    IF cfg.writer_format = "json" THEN channels
    ELSE Ros2EnsureChannel(channels, cur.topic_name, cur.schema_id)

\* a write that leaves the sequence number of every message at 0
WrittenMessageUnsequenced(w, idx) ==
    Message(cur.stream,
            IF cfg.writer_format = "json" THEN cur.channel_id
            ELSE ChannelOf(ChannelsAfterWrite, cur.topic_name),
            cur.topic_name, w.log_time, w.publish_time, 0, w.data, idx)

WrittenMessage(w, idx) ==
    Message(cur.stream,
            IF cfg.writer_format = "json" THEN cur.channel_id
            ELSE ChannelOf(ChannelsAfterWrite, cur.topic_name),
            cur.topic_name, w.log_time, w.publish_time,
            IF cfg.writer_format = "json" THEN 0 ELSE idx,
            w.data, idx)

\* one turn of the write loop on a table: the iterator converts row ri and
\* the backend writes it
WriteRow ==
    /\ pc = "row"
    /\ LET converted == ConvertRowOf(cur.mode, cur.schema_keys,
                                     cur.function_name, df, ri)
           w == IF converted.ok
                THEN BackendWrite(converter_functions[cur.function_name], df, ri,
                                  converted.msg)
                ELSE Written(FALSE, "row conversion failed", 0, 0, EmptyMsg)
           last == NextRow(ri) > Len(df.rows)
       IN  IF ~w.ok
           THEN /\ pc' = "aborted"
                /\ error' = w.error
                /\ UNCHANGED <<ti, si, ri, channels, messages, streams>>
           ELSE /\ channels' = ChannelsAfterWrite
                /\ messages' = Append(messages, WrittenMessage(w, RowIndex(ri)))
                /\ streams' = [streams EXCEPT ![cur.stream].done = last]
                /\ ri' = NextRow(ri)
                /\ pc' = IF last THEN AfterSpec.pc ELSE "row"
                /\ si' = IF last THEN AfterSpec.si ELSE si
                /\ ti' = IF last THEN AfterSpec.ti ELSE ti
                /\ error' = error
    /\ UNCHANGED <<cfg, opened, mapping_tuples, df, cur, schema_ids, schemas,
                   attachments, metadata, finished>>

(***************************************************************************)
(* McapConverter._process_other_mappings                                   *)
(***************************************************************************)
\* top of the loop over the other mapping tuples: topic name, schema from the
\* cache or the backend, load the frames, open the channel
OtherStart ==
    /\ pc = "other"
    /\ ti <= Len(mapping_tuples.other)
    /\ LET tuple == mapping_tuples.other[ti]
           other_mapping == tuple.mapping
           topic_name == OtherTopicName(cfg.topic_prefix, tuple.file,
                                        other_mapping.topic_suffix)
           res == ResolveNamedSchema(OtherSchemaName(other_mapping.type,
                                                     cfg.writer_format))
           n == Len(VideoData(tuple.file).frames)
       IN  IF ~res.ok
           THEN /\ pc' = "aborted"
                /\ error' = "unknown schema"
                /\ UNCHANGED <<ti, ri, cur, schema_ids, schemas, channels,
                               streams>>
           ELSE /\ schemas' = schemas \o res.registered
                /\ schema_ids' = CacheAfter(res)
                /\ channels' = ChannelsAtOpen(topic_name, res.schema_id)
                /\ streams' = Append(streams,
                                 Stream("other", tuple, 1, res, topic_name,
                                        "frame", "", n))
                /\ cur' = [topic_name |-> topic_name, schema_id |-> res.schema_id,
                           schema_keys |-> <<>>, mode |-> "frame",
                           function_name |-> "",
                           channel_id |-> ChannelIdAtOpen,
                           stream |-> Len(streams) + 1]
                /\ ri' = 1
                /\ pc' = IF n = 0 THEN "other" ELSE "frame"
                /\ ti' = IF n = 0 THEN ti + 1 ELSE ti
                /\ error' = error
    /\ UNCHANGED <<cfg, opened, mapping_tuples, df, si, messages, attachments,
                   metadata, finished>>

\* one turn of the write loop on the frames of an image / video file
WriteFrame ==
    /\ pc = "frame"
    /\ LET tuple == mapping_tuples.other[ti]
           video == VideoData(tuple.file)
           msg == FrameMessage(tuple.mapping, video, RowIndex(ri))
           w == BackendWrite(NoDefinition, NoTable, ri, msg)
           last == NextRow(ri) > Len(video.frames)
       IN  IF ~w.ok
           THEN /\ pc' = "aborted"
                /\ error' = w.error
                /\ UNCHANGED <<ti, ri, channels, messages, streams>>
           ELSE /\ channels' = ChannelsAfterWrite
                /\ messages' = Append(messages, WrittenMessage(w, RowIndex(ri)))
                /\ streams' = [streams EXCEPT ![cur.stream].done = last]
                /\ ri' = NextRow(ri)
                /\ pc' = IF last THEN "other" ELSE "frame"
                /\ ti' = IF last THEN ti + 1 ELSE ti
                /\ error' = error
    /\ UNCHANGED <<cfg, opened, mapping_tuples, df, si, cur, schema_ids, schemas,
                   attachments, metadata, finished>>

(***************************************************************************)
(* McapConverter._process_attachments / _process_metadata                  *)
(***************************************************************************)
\* create_time_ns: st_birthtime where the platform has it, else st_ctime
CreateTimeOn(has_birthtime, stat) ==
    IF has_birthtime THEN stat.st_birthtime * NsPerSec
    ELSE stat.st_ctime * NsPerSec

\* hasattr(stat, "st_birthtime") is a fact of the platform the run is on
CreateTimeNs(stat) == CreateTimeOn(cfg.has_birthtime, stat)

Attachment(create_time, log_time, name, media_type, data) ==
    [create_time |-> create_time, log_time |-> log_time, name |-> name,
     media_type |-> media_type, data |-> data]

\* an attachment named by the file name without its directories
AttachmentNamedByBasename(input_file) ==
    LET stat == FileStat(input_file)
    IN  Attachment(CreateTimeNs(stat), stat.st_mtime * NsPerSec,
                   PathName(input_file), "text/plain", FileLines(input_file))

\* the add_attachment call for one file: its times, str(relative_path), the
\* media type and the bytes read from the file
AttachmentOf(input_file) ==
    LET stat == FileStat(input_file)
    IN  Attachment(CreateTimeNs(stat), stat.st_mtime * NsPerSec,
                   input_file, "text/plain", FileLines(input_file))

\* one turn of the loop over the attachment tuples
WriteAttachment ==
    /\ pc = "attachments"
    /\ ti <= Len(mapping_tuples.attachments)
    /\ attachments' = Append(attachments,
                              AttachmentOf(mapping_tuples.attachments[ti].file))
    /\ ti' = ti + 1
    /\ UNCHANGED <<cfg, pc, opened, mapping_tuples, df, si, ri, cur, schema_ids,
                   schemas, channels, messages, streams, metadata, finished,
                   error>>

\* one turn of the loop over the metadata tuples
WriteMetadata ==
    /\ pc = "metadata"
    /\ ti <= Len(mapping_tuples.metadata)
    /\ LET tuple == mapping_tuples.metadata[ti]
       IN  metadata' = Append(metadata,
               [name |-> tuple.file,
                metadata |-> MetadataDict(FileLines(tuple.file),
                                          tuple.mapping.separator, <<>>)])
    /\ ti' = ti + 1
    /\ UNCHANGED <<cfg, pc, opened, mapping_tuples, df, si, ri, cur, schema_ids,
                   schemas, channels, messages, streams, attachments, finished,
                   error>>

(***************************************************************************)
(* The specification                                                       *)
(***************************************************************************)
Next ==
    \/ Start
    \/ Prepare
    \/ LoadTable
    \/ RunSpec
    \/ WriteRow
    \/ OtherStart
    \/ WriteFrame
    \/ WriteAttachment
    \/ WriteMetadata
    \/ EndPhase
    \/ Finish

Spec == Init /\ [][Next]_vars

(***************************************************************************)
(* Properties                                                              *)
(***************************************************************************)
StreamMessages(s) == SelectSeq(messages, LAMBDA m : m.stream = s)

\* the converter function definition and the table a write call worked on
DefinitionOf(st) ==
    IF st.kind = "tabular" THEN converter_functions[st.function_name]
    ELSE NoDefinition

TableOf(st) == IF st.kind = "tabular" THEN LoadedTable(st.file) ELSE NoTable

RegistrationsOf(name) ==
    {i \in 1..Len(schemas) :
        schemas[i].name = name /\ schemas[i].via = "register_schema"}

CatalogUse(st) == st.how \in {"cached", "registered"}

C1_OneHandle ==
    \A s \in 1..Len(streams) :
        CatalogUse(streams[s]) =>
            /\ Cardinality(RegistrationsOf(streams[s].schema_name)) = 1
            /\ \A i \in RegistrationsOf(streams[s].schema_name) :
                  /\ streams[s].schema_id = i
                  /\ schema_ids[streams[s].schema_name] = i

C1_LaterUse ==
    (/\ Len(streams') = Len(streams) + 1
     /\ streams'[Len(streams')].how = "cached")
        => /\ schemas' = schemas
           /\ schema_ids' = schema_ids

\* C1: for every predefined (catalog) schema name used by a tabular spec or an
\* image/video mapping, register_schema is invoked at most once for the name
\* in a run, every use of the name gets the handle of that one registration,
\* the cache keeps that handle, and a use served from the cache leaves the
\* number of registered schemas and the cache unchanged.
C1_CatalogSchemaRegisteredOnce ==
    [](C1_OneHandle) /\ [][C1_LaterUse]_vars

\* a catalog name first used by a tabular spec, served from the cache to a
\* later table and then to an image mapping
C1_Witness ==
    /\ \E s \in 1..Len(streams) :
          streams[s].kind = "tabular" /\ streams[s].how = "cached"
    /\ \E s \in 1..Len(streams) :
          streams[s].kind = "other" /\ streams[s].how = "cached"

GenericRegistrationsOf(name) ==
    {i \in 1..Len(schemas) :
        schemas[i].name = name /\ schemas[i].via = "register_generic_schema"}

\* C2: when two generic-mode specs of a run produce the same generated schema
\* name, the second gets the handle of the first and register_generic_schema
\* is not invoked again for the name.
C2_GenericNameReusesHandle ==
    \A s, t \in 1..Len(streams) :
        (/\ s < t
         /\ streams[s].mode = "generic"
         /\ streams[t].mode = "generic"
         /\ streams[s].schema_name = streams[t].schema_name)
            => /\ streams[t].schema_id = streams[s].schema_id
               /\ Cardinality(GenericRegistrationsOf(streams[s].schema_name)) <= 1

\* the message the backend is handed for row r of a completed write call
ExpectedData(st, r) ==
    LET converted == ConvertRowOf(st.mode, st.schema_keys, st.function_name,
                                  TableOf(st), r).msg
    IN  IF cfg.writer_format = "json" THEN JsonEncode(converted) ELSE converted

TopicIsOfOneStream(s) ==
    \A t \in 1..Len(streams) :
        streams[t].topic_name = streams[s].topic_name => t = s

ChannelMessages(channel_id) ==
    SelectSeq(messages, LAMBDA m : m.channel_id = channel_id)

C4_LogTimeTemplateWins ==
    \A i \in 1..Len(messages) :
        LET st == streams[messages[i].stream]
            definition == DefinitionOf(st)
        IN  (/\ definition.log_time_template.some
             /\ messages[i].data.timestamp.k = "pair")
                => messages[i].log_time =
                     RenderTime(definition.log_time_template, TableOf(st),
                                messages[i].row + 1).ns

C6_HeaderStampThirdChoice ==
    \A i \in 1..Len(messages) :
        LET m == messages[i]
            definition == DefinitionOf(streams[m.stream])
        IN  (~definition.log_time_template.some /\ m.data.header.k = "pair") =>
               /\ m.data.timestamp.k = "absent" =>
                     m.log_time = m.data.header.sec * 1000000000 + m.data.header.nsec
               /\ m.data.timestamp.k = "pair" =>
                     m.log_time =
                       m.data.timestamp.sec * 1000000000 + m.data.timestamp.nsec

\* a written message that has both fields, with different times
C6_Witness ==
    \E i \in 1..Len(messages) :
        /\ messages[i].data.timestamp.k = "pair"
        /\ messages[i].data.header.k = "pair"
        /\ messages[i].data.header.sec # messages[i].data.timestamp.sec
        /\ messages[i].log_time =
              messages[i].data.timestamp.sec * 1000000000
                + messages[i].data.timestamp.nsec

\* the write loop is at a row whose converted message has no template-derived
\* time, no timestamp field and no header.stamp field
RowLacksTime ==
    /\ pc = "row"
    /\ LET converted == ConvertRowOf(cur.mode, cur.schema_keys, cur.function_name,
                                     df, ri)
       IN  /\ converted.ok
           /\ ~converter_functions[cur.function_name].log_time_template.some
           /\ converted.msg.timestamp.k = "absent"
           /\ converted.msg.header.k = "absent"

C7_Step ==
    /\ RowLacksTime =>
          /\ pc' = "aborted"
          /\ error' \in {"No timestamp found in message", "no timestamp"}
          /\ messages' = messages
    /\ pc = "aborted" => UNCHANGED vars

C8_PublishTime ==
    \A i \in 1..Len(messages) :
        LET m == messages[i]
            st == streams[m.stream]
            definition == DefinitionOf(st)
        IN  /\ ~definition.publish_time_template.some
                  => m.publish_time = m.log_time
            /\ definition.publish_time_template.some
                  => m.publish_time =
                       RenderTime(definition.publish_time_template, TableOf(st),
                                  m.row + 1).ns

IsTimeField(field) ==
    /\ field.name = C_timestamp
    /\ field.type \in {JsonTimeType, Ros2TimeType}

\* C9: every schema registered through register_generic_schema has a field
\* named timestamp of the {sec, nsec} shape or the backend's time type.
C9_GenericSchemaHasTimestamp ==
    \A i \in 1..Len(schemas) :
        schemas[i].via = "register_generic_schema" =>
            \E j \in 1..Len(schemas[i].fields) : IsTimeField(schemas[i].fields[j])

\* the exclude pattern of the tuple's rule matches the root-relative path
ExcludedByRelativePath(tuple) ==
    /\ tuple.mapping.exclude_file_pattern.some
    /\ ReMatch(tuple.mapping.exclude_file_pattern.v, tuple.file)

\* C10: a file whose root-relative path matches the exclude_file_pattern of a
\* rule is never paired with the rule, for the four rule kinds, so the rule
\* opens no write call for the file.
C10_ExcludeOnRelativePath ==
    /\ \A kind \in DOMAIN mapping_tuples :
          \A j \in 1..Len(mapping_tuples[kind]) :
              ~ExcludedByRelativePath(mapping_tuples[kind][j])
    /\ \A s \in 1..Len(streams) :
          LET rules == IF streams[s].kind = "tabular" THEN cfg.tabular_mappings
                       ELSE cfg.other_mappings
          IN  ~ExcludedByRelativePath([mapping |-> rules[streams[s].rule],
                                       file |-> streams[s].file])


\* C11: with a writer_format other than json and ros2 (ros1, protobuf: the
\* configuration model accepts them), convert() raises the unsupported-format
\* error before the output file is opened, no input file is globbed or
\* loaded, and nothing is written.
C11_UnsupportedFormatRejectedFirst ==
    cfg.writer_format \notin {"json", "ros2"} =>
        /\ ~opened
        /\ pc \in {"start", "aborted"}
        /\ pc = "aborted" => error = "unsupported writer format"
        /\ mapping_tuples = [tabular |-> <<>>, other |-> <<>>,
                             attachments |-> <<>>, metadata |-> <<>>]
        /\ df = NoTable
        /\ schemas = <<>> /\ channels = <<>> /\ messages = <<>>
        /\ attachments = <<>> /\ metadata = <<>>
        /\ ~finished

\* a protobuf run with a tabular rule and an attachment rule that match files,
\* rejected
C11_Witness ==
    /\ cfg.writer_format = "protobuf"
    /\ _process_file_mappings(cfg.tabular_mappings) # <<>>
    /\ _process_file_mappings(cfg.attachments) # <<>>
    /\ pc = "aborted"
    /\ error = "unsupported writer format"


\* the spec loop is at a spec whose function_name is not in the
\* converter-function file
AtUnknownFunction ==
    /\ pc = "spec"
    /\ mapping_tuples.tabular[ti].mapping.converter_functions[si].function_name
          \notin DOMAIN converter_functions

C12_Step ==
    /\ AtUnknownFunction =>
          /\ pc' = "aborted"
          /\ error' = "unknown converter function"
          /\ UNCHANGED <<schemas, schema_ids, channels, messages, streams,
                         attachments, metadata, finished>>
    /\ pc = "aborted" =>
          UNCHANGED <<pc, schemas, schema_ids, channels, messages, streams,
                      attachments, metadata, finished>>

\* C12: a converter spec whose function_name is not defined raises an error
\* that aborts the run at once: no schema is registered and no channel or
\* message is written for that spec, for a later spec of the file or for a
\* later file, and the writer is not finished.
C12_UnknownFunctionAborts == [][C12_Step]_vars /\ [](pc = "aborted" => ~finished)

\* the second spec of the first of two matched files names an unknown
\* function, after the first spec was written
C12_Witness ==
    /\ pc = "aborted"
    /\ error = "unknown converter function"
    /\ si = 2
    /\ ti = 1
    /\ Len(mapping_tuples.tabular) = 2
    /\ Len(streams) = 1
    /\ Len(messages) = 2


\* the spec loop is at a spec with a known function and a schema_name that is
\* neither cached nor a catalog name
AtUnknownSchema ==
    /\ pc = "spec"
    /\ LET converter_function ==
              mapping_tuples.tabular[ti].mapping.converter_functions[si]
       IN  /\ converter_function.function_name \in DOMAIN converter_functions
           /\ converter_function.schema_name.some
           /\ converter_function.schema_name.v \notin DOMAIN schema_ids
           /\ converter_function.schema_name.v \notin CatalogNames(cfg.writer_format)

C13_Step ==
    AtUnknownSchema =>
        /\ pc' = "aborted"
        /\ error' = "unknown schema"
        /\ mapping_tuples.tabular[ti].mapping.converter_functions[si].schema_name.v
              \notin DOMAIN schema_ids'
        /\ UNCHANGED <<schemas, channels, messages, streams, finished>>

\* C13: resolving a schema_name that is given in the spec, not cached and not
\* in the predefined catalog fails with an error that aborts the run; the
\* cache gets no entry for the name and no channel is opened for the spec.
C13_UnknownSchemaAborts ==
    [][C13_Step]_vars /\ [](error = "unknown schema" => pc = "aborted" /\ ~finished)

\* the second spec of a file names a schema without the "foxglove." prefix,
\* after the first spec registered a catalog schema and wrote its rows
C13_Witness ==
    /\ pc = "aborted"
    /\ error = "unknown schema"
    /\ cfg.writer_format = "json"
    /\ si = 2
    /\ mapping_tuples.tabular[ti].mapping.converter_functions[si].schema_name.v
          = PlainUnknown
    /\ PlainUnknown \notin DOMAIN schema_ids
    /\ Len(schemas) = 1
    /\ Len(channels) = 1


\* C14: the writer operations of a run are determined by the input tree and
\* the configuration alone: a run on the same tree with the same
\* configuration on any platform writes the same records.  The schemas,
\* channels, messages and metadata of the model are computed from the tree
\* and the configuration only; an attachment also carries a creation time,
\* which must then be the same whatever the platform.
C14_OutputDeterminedByTreeAndConfig ==
    \A i \in 1..Len(attachments) :
        \A has_birthtime \in BOOLEAN :
            attachments[i].create_time =
                CreateTimeOn(has_birthtime, FileStat(attachments[i].name))


\* the number of attachment tuples the attachment loop has gone through
AttachmentsDone ==
    IF pc = "attachments" THEN ti - 1
    ELSE IF pc \in {"metadata", "finish", "done"} THEN Len(mapping_tuples.attachments)
    ELSE 0

\* C15: every file paired with an attachment rule gets exactly one
\* attachment, in pairing order, named by the file's root-relative path and
\* holding the file's content unchanged, so that the file the attachment
\* names has the attachment's data; both backends.
C15_AttachmentIsTheFile ==
    /\ Len(attachments) = AttachmentsDone
    /\ \A i \in 1..Len(attachments) :
          /\ attachments[i].name = mapping_tuples.attachments[i].file
          /\ attachments[i].data = FileLines(mapping_tuples.attachments[i].file)
          /\ attachments[i].name \in Range(InputTree)
          /\ FileLines(attachments[i].name) = attachments[i].data

\* a finished run that attached a top-level file and a file in a directory
C15_Witness ==
    /\ pc = "done"
    /\ Len(attachments) = 2
    /\ attachments[1].name = P_n_txt
    /\ attachments[2].name = P_d_n_txt
    /\ attachments[1].data # attachments[2].data


\* the topic_suffix of the converter spec or image/video mapping of a write
\* call
TopicSuffixOf(st) ==
    IF st.kind = "tabular"
    THEN cfg.tabular_mappings[st.rule].converter_functions[st.spec].topic_suffix
    ELSE cfg.other_mappings[st.rule].topic_suffix

\* C16: the topic name of every write call, tabular or image/video, is
\* topic_prefix + sanitized(root-relative path of the file) + "/" +
\* topic_suffix, with one sanitizing function (the one of the tabular loop)
\* applied to the relative path in both loops.
C16_TopicNameFormula ==
    \A s \in 1..Len(streams) :
        streams[s].topic_name =
            cfg.topic_prefix \o _clean_string(streams[s].file)
                \o <<"/">> \o TopicSuffixOf(streams[s])

(***************************************************************************)
(* C17: the topic names of one run                                         *)
(***************************************************************************)
\* C17: the topic names of the write calls of one run are pairwise distinct:
\* no two (file, converter spec) or (file, other mapping) pairs processed in
\* a run write to the same topic name.
C17_TopicNamesDistinct ==
    \A s, t \in 1..Len(streams) :
        s # t => streams[s].topic_name # streams[t].topic_name

(***************************************************************************)
(* C18: test mode                                                          *)
(***************************************************************************)
\* the table as the file holds it, before the test-mode limit
FullTable(input_file) == SanitizeColumns(cfg.tables[input_file])

Min(a, b) == IF a < b THEN a ELSE b

\* the conversion of row r of the file's full table by the spec of a write call
FullRowData(st, r) ==
    LET converted == ConvertRowOf(st.mode, st.schema_keys, st.function_name,
                                  FullTable(st.file), r).msg
    IN  IF cfg.writer_format = "json" THEN JsonEncode(converted) ELSE converted

SpecOf(st) ==
    cfg.tabular_mappings[st.rule].converter_functions[st.spec]

\* the generic schema of the table cut to its first five rows
SchemaOfFirstFive(st) ==
    GenericSchema(cfg.writer_format, DfHead(FullTable(st.file), 5),
                  IF SpecOf(st).exclude_columns.some
                  THEN SpecOf(st).exclude_columns.v ELSE <<>>)

Handles == {None, Some(0), Some(1)}

HandleTopic == TabularTopicName(<<>>, P_a_csv, Suffix_s)

HandleConfigs ==
    { Config(wf,
             <<TabularMappingConfig(CsvTop, None,
                 <<ConverterFunctionConfig("f_ts", Some(LocationFixName(wf)),
                                           Suffix_s, None)>>)>>,
             <<>>, <<>>, <<>>, Tables(FALSE, rows), FALSE) :
        wf \in SUPPORT_WRITER_FORMATS,
        rows \in SeqsUpTo({<<1, 500000000, 7, 9>>, <<2, 1, 3, 4>>}, MaxRows) }

\* before the call: at the guard of the tabular loop ("guard") or at the
\* entry of the backend's write_messages_from_iterator ("call"), one schema
\* registered, the table loaded
HandleInit ==
    /\ cfg \in HandleConfigs
    /\ pc \in {"guard", "call"}
    /\ opened = TRUE
    /\ mapping_tuples = [tabular |-> <<>>, other |-> <<>>,
                         attachments |-> <<>>, metadata |-> <<>>]
    /\ ti = 1
    /\ df = SanitizeColumns(cfg.tables[P_a_csv])
    /\ si = 1
    /\ ri = 1
    /\ \E h \in Handles :
          cur = [topic_name |-> HandleTopic, schema_id |-> h, schema_keys |-> <<>>,
                 mode |-> "template", function_name |-> "f_ts", channel_id |-> 0,
                 stream |-> 1]
    /\ schema_ids = <<>>
    /\ schemas = <<Schema(LocationFixName(cfg.writer_format), "register_schema", <<>>)>>
    /\ channels = <<>>
    /\ messages = <<>>
    /\ streams = <<>>
    /\ attachments = <<>>
    /\ metadata = <<>>
    /\ finished = FALSE
    /\ error = ""

\* "if schema_id is not None:" around the write call of the tabular loop
HandleGuard ==
    /\ pc = "guard"
    /\ pc' = IF cur.schema_id.some THEN "call" ELSE "skipped"
    /\ UNCHANGED <<cfg, opened, mapping_tuples, ti, df, si, ri, cur, schema_ids,
                   schemas, channels, messages, streams, attachments, metadata,
                   finished, error>>

\* schema_id if schema_id is not None else 0
JsonChannelSchemaId(schema_id) == IF schema_id.some THEN schema_id.v ELSE 0

\* entry of write_messages_from_iterator: the JSON backend registers the
\* channel, the ROS2 backend goes straight to its loop
HandleOpen ==
    /\ pc = "call"
    /\ channels' = IF cfg.writer_format = "json"
                   THEN JsonRegisterChannel(channels, cur.topic_name,
                                            JsonChannelSchemaId(cur.schema_id))
                   ELSE channels
    /\ cur' = [cur EXCEPT !.channel_id =
                  IF cfg.writer_format = "json" THEN Len(channels) + 1 ELSE 0]
    /\ pc' = IF Len(df.rows) = 0 THEN "returned" ELSE "item"
    /\ UNCHANGED <<cfg, opened, mapping_tuples, ti, df, si, ri, schema_ids,
                   schemas, messages, streams, attachments, metadata, finished,
                   error>>

\* one item of the write loop written: the message and the writer's channels
HandleItemWritten(w) ==
    LET chs == IF cfg.writer_format = "json" THEN channels
               ELSE Ros2EnsureChannel(channels, cur.topic_name,
                                      JsonChannelSchemaId(cur.schema_id))
        last == NextRow(ri) > Len(df.rows)
    IN  /\ channels' = chs
        /\ messages' = Append(messages,
              Message(cur.stream,
                      IF cfg.writer_format = "json" THEN cur.channel_id
                      ELSE ChannelOf(chs, cur.topic_name),
                      cur.topic_name, w.log_time, w.publish_time,
                      IF cfg.writer_format = "json" THEN 0 ELSE RowIndex(ri),
                      w.data, RowIndex(ri)))
        /\ ri' = NextRow(ri)
        /\ pc' = IF last THEN "returned" ELSE "item"
        /\ error' = error

\* one turn of the write loop. The ROS2 backend hands schema_id to the
\* writer's write_message unchecked; what that library does with None or 0
\* is not this repository's code: it raises or it writes.
HandleWrite ==
    /\ pc = "item"
    /\ LET converted == convert_row(converter_functions[cur.function_name], df, ri)
           w == BackendWrite(converter_functions[cur.function_name], df, ri,
                             converted.msg)
           valid == cur.schema_id.some /\ cur.schema_id.v # 0
       IN  \/ /\ cfg.writer_format = "json" \/ valid
              /\ HandleItemWritten(w)
           \/ /\ cfg.writer_format = "ros2" /\ ~valid
              /\ \E raises \in BOOLEAN :
                    IF raises
                    THEN /\ pc' = "aborted"
                         /\ error' = "writer error"
                         /\ UNCHANGED <<ri, channels, messages>>
                    ELSE HandleItemWritten(w)
    /\ UNCHANGED <<cfg, opened, mapping_tuples, ti, df, si, cur, schema_ids,
                   schemas, streams, attachments, metadata, finished>>

HandleNext ==
    \/ HandleGuard
    \/ HandleOpen
    \/ HandleWrite

HandleSpec == HandleInit /\ [][HandleNext]_vars

HandleAbsent == ~cur.schema_id.some \/ cur.schema_id.v = 0

\* C19: on both backends a write call with a schema handle that is zero or
\* None is rejected at channel-open time with an error naming the topic and
\* the schema: no channel is registered with schema id 0, no message is
\* written, and the spec is not silently skipped.
C19_AbsentHandleRejected ==
    HandleAbsent =>
        /\ pc # "skipped"
        /\ \A c \in 1..Len(channels) : channels[c].schema_id # 0
        /\ messages = <<>>
        /\ pc \in {"guard", "call", "aborted"}
        /\ pc = "aborted" => error = "schema handle rejected"

(***************************************************************************)
(* C20: the order of the write calls                                       *)
(***************************************************************************)
SpecsOfTuple(tuple) ==
    [k \in 1..Len(tuple.mapping.converter_functions) |->
        [rule |-> tuple.rule, file |-> tuple.file, spec |-> k]]

\* the (rule, file, spec) triples of the tuples from i on, specs innermost
RECURSIVE OpeningsFrom(_, _)
OpeningsFrom(tuples, i) ==
    IF i > Len(tuples) THEN <<>>
    ELSE SpecsOfTuple(tuples[i]) \o OpeningsFrom(tuples, i + 1)

TabularStreams == SelectSeq(streams, LAMBDA st : st.kind = "tabular")

\* the write calls on tables so far, as (rule, file, spec) triples
TabularCalls ==
    [s \in 1..Len(TabularStreams) |->
        [rule |-> TabularStreams[s].rule, file |-> TabularStreams[s].file,
         spec |-> TabularStreams[s].spec]]

DiscoveryIndex(file) == CHOOSE i \in 1..Len(InputTree) : InputTree[i] = file

\* rule by rule in declaration order, within a rule in discovery order
TuplesInOrder(tuples) ==
    \A i, j \in 1..Len(tuples) :
        i < j => \/ tuples[i].rule < tuples[j].rule
                 \/ /\ tuples[i].rule = tuples[j].rule
                    /\ DiscoveryIndex(tuples[i].file) < DiscoveryIndex(tuples[j].file)

\* the write calls follow the tuples in order and, per tuple, the specs in
\* their declared order; a run that got past the tables made all of them
C20_CallsInOrder ==
    LET expected == OpeningsFrom(mapping_tuples.tabular, 1)
    IN  /\ TuplesInOrder(mapping_tuples.tabular)
        /\ Len(TabularCalls) <= Len(expected)
        /\ TabularCalls = SubSeq(expected, 1, Len(TabularCalls))
        /\ pc \in {"other", "frame", "attachments", "metadata", "finish", "done"}
              => TabularCalls = expected

DoneStreams == {s \in 1..Len(streams) : streams[s].done}

\* the writer holds one channel for each completed write call and none else
OneChannelPerCall ==
    /\ Cardinality(DoneStreams) <= Len(channels)
    /\ Len(channels) <= Len(streams)

\* C20: for every matched tabular file the converter specs of its rule are
\* run in their declared order and each spec opens exactly one channel;
\* (rule, file) pairs are processed rule by rule in declaration order and,
\* within a rule, in file-discovery order.
C20_SpecOrderOneChannelEach ==
    C20_CallsInOrder /\ OneChannelPerCall

(***************************************************************************)
(* C21: conversion and writing are interleaved                             *)
(***************************************************************************)
RowErrors == {"row conversion failed", "no timestamp", "No timestamp found in message"}

\* the messages of write call s are those of its rows 0, 1, 2, ... in order
RowsInOrder(s) ==
    \A k \in 1..Len(StreamMessages(s)) : StreamMessages(s)[k].row = k - 1

\* the messages of the run are grouped by write call, in the order of the calls
MessagesByCall ==
    \A i, j \in 1..Len(messages) : i < j => messages[i].stream <= messages[j].stream

\* a write call starts only when every earlier write call wrote all its items
EarlierCallsComplete ==
    \A s \in 1..Len(streams) :
        s < Len(streams) =>
            /\ streams[s].done
            /\ Len(StreamMessages(s)) = streams[s].n

\* the table in memory is the one of the file being processed
OneTableLoaded ==
    pc \in {"spec", "row"} => df = LoadedTable(mapping_tuples.tabular[ti].file)

\* the write loop stopped at the item at position ri of the running call
StoppedAtRow == pc = "aborted" /\ error \in RowErrors

\* C21: conversion and writing are interleaved without lookahead. Within a
\* write call the messages are those of rows 0, 1, 2, ... in order; a write
\* call (a converter spec of a file, in the order file by file and spec by
\* spec) starts only when every earlier call wrote all its messages, and the
\* table in memory is the one of the current file; when the conversion or
\* the write of row k fails, exactly the messages of rows 0..k-1 of that call
\* have been written.
C21_ConvertWriteInterleaved ==
    /\ \A s \in 1..Len(streams) : RowsInOrder(s)
    /\ MessagesByCall
    /\ EarlierCallsComplete
    /\ OneTableLoaded
    /\ TabularCalls = SubSeq(OpeningsFrom(mapping_tuples.tabular, 1), 1, Len(TabularCalls))
    /\ StoppedAtRow =>
          /\ cur.stream = Len(streams)
          /\ Len(StreamMessages(cur.stream)) = ri - 1
          /\ ~streams[cur.stream].done

\* the conversion of the second row of a table failed after the first row's
\* message was written
C21_Witness ==
    /\ pc = "aborted"
    /\ error = "row conversion failed"
    /\ ri = 2
    /\ Len(StreamMessages(cur.stream)) = 1
    /\ StreamMessages(cur.stream)[1].row = 0

(***************************************************************************)
(* C22: fatal errors and finish                                            *)
(***************************************************************************)
\* what the writer has been given so far
Output == <<schemas, channels, messages, attachments, metadata>>

\* every tuple of the four phases has been processed to its end
AllPhasesCompleted ==
    /\ TabularCalls = OpeningsFrom(mapping_tuples.tabular, 1)
    /\ Len(streams) = Len(TabularCalls) + Len(mapping_tuples.other)
    /\ \A s \in 1..Len(streams) :
          streams[s].done /\ Len(StreamMessages(s)) = streams[s].n
    /\ Len(attachments) = Len(mapping_tuples.attachments)
    /\ Len(metadata) = Len(mapping_tuples.metadata)

C22_State ==
    /\ pc = "aborted" => ~finished /\ error # ""
    /\ finished => pc = "done" /\ error = "" /\ AllPhasesCompleted

C22_Step ==
    /\ pc' = "aborted" => Output' = Output
    /\ pc = "aborted" => vars' = vars
    /\ finished' # finished => ~finished /\ pc = "finish" /\ pc' = "done"
    /\ finished => vars' = vars

\* C22: a fatal error raised after the output was opened leaves finish
\* uninvoked for the rest of the run and rolls nothing back: the step that
\* raises and every later step leave the schemas, channels, messages,
\* attachments and metadata written so far as they are. finish is invoked at
\* most once, from the end of the fourth phase only, when all four phases
\* processed all their tuples without error, and nothing follows it.
C22_NoFinishNoRollback ==
    [](C22_State) /\ [][C22_Step]_vars

\* a run that failed in a write loop after it had registered a schema and
\* written a message
C22_Witness ==
    /\ pc = "aborted"
    /\ opened
    /\ ~finished
    /\ error \in RowErrors
    /\ schemas # <<>>
    /\ messages # <<>>

(***************************************************************************)
(* The loop body of JsonConverter.write_messages_from_iterator as a unit:  *)
(* one ConvertedRow item, encoded and handed to the writer                 *)
(***************************************************************************)
\* values a converter can put under a key: raw bytes, text, a number
DataValues ==
    { [k |-> "bytes", v |-> 21], [k |-> "bytes", v |-> 22],
      [k |-> "text", v |-> 21], [k |-> "int", v |-> 7] }

K_inner == <<"i","n","n","e","r">>

\* {"data": value} as the value of a field below the top level
NestedData(value) == [k |-> "dict", v |-> value]

\* the messages handed to the loop: "data" absent or present at the top level,
\* and a field "inner" absent or holding a nested "data"
EncodeMessages ==
    { [EmptyMsg EXCEPT !.timestamp = Stamp(1, 5), !.data = d, !.fields = fs] :
        d \in DataValues \cup {AbsentData},
        fs \in {<<>>} \cup
               { <<[key |-> K_inner, value |-> NestedData(n)]>> : n \in DataValues } }

EncodeItems ==
    { [data |-> m, log_time_ns |-> lt, publish_time_ns |-> pt] :
        m \in EncodeMessages, lt \in {1, 2}, pt \in {2} }

EncodeInit ==
    /\ cfg \in { c \in HandleConfigs : c.writer_format = "json" /\ c.tables[P_a_csv].rows = <<>> }
    /\ pc = "call"
    /\ opened = TRUE
    /\ mapping_tuples = [tabular |-> <<>>, other |-> <<>>,
                         attachments |-> <<>>, metadata |-> <<>>]
    /\ ti = 1
    /\ df = NoTable
    /\ si = 1
    /\ ri = 1
    /\ \E item \in EncodeItems :
          cur = [topic_name |-> HandleTopic, schema_id |-> 1, channel_id |-> 0,
                 stream |-> 1, converted_row |-> item]
    /\ schema_ids = <<>>
    /\ schemas = <<Schema(JsonLocationFix, "register_schema", <<>>)>>
    /\ channels = <<>>
    /\ messages = <<>>
    /\ streams = <<>>
    /\ attachments = <<>>
    /\ metadata = <<>>
    /\ finished = FALSE
    /\ error = ""

\* "# Register channel" at the entry of the call
EncodeOpen ==
    /\ pc = "call"
    /\ channels' = JsonRegisterChannel(channels, cur.topic_name, cur.schema_id)
    /\ cur' = [cur EXCEPT !.channel_id = Len(channels) + 1]
    /\ pc' = "item"
    /\ UNCHANGED <<cfg, opened, mapping_tuples, ti, df, si, ri, schema_ids,
                   schemas, messages, streams, attachments, metadata, finished,
                   error>>

\* json.dumps(msg) succeeds: no raw bytes are left in the message
JsonDumpsOk(msg) ==
    /\ msg.data.k # "bytes"
    /\ \A i \in 1..Len(msg.fields) :
          ~(msg.fields[i].value.k = "dict" /\ msg.fields[i].value.v.k = "bytes")

\* the loop body on the item: the "data" replacement, json.dumps, add_message
EncodeWrite ==
    /\ pc = "item"
    /\ LET converted_row == cur.converted_row
           msg == JsonEncode(converted_row.data)
       IN  IF JsonDumpsOk(msg)
           THEN /\ messages' = Append(messages,
                      Message(cur.stream, cur.channel_id, cur.topic_name,
                              converted_row.log_time_ns,
                              converted_row.publish_time_ns, 0, msg, 0))
                /\ pc' = "returned"
                /\ error' = error
           ELSE /\ pc' = "aborted"
                /\ error' = "not JSON serializable"
                /\ messages' = messages
    /\ UNCHANGED <<cfg, opened, mapping_tuples, ti, df, si, ri, cur, schema_ids,
                   schemas, channels, streams, attachments, metadata, finished>>

EncodeNext ==
    \/ EncodeOpen
    \/ EncodeWrite

EncodeSpec == EncodeInit /\ [][EncodeNext]_vars

\* C23: in the JSON backend, for every written message, a top-level "data"
\* holding raw bytes is replaced by the base64 text of these bytes; every
\* other field, a "data" that is not raw bytes and a "data" nested below the
\* top level included, is written with the value the converter produced, and
\* the log and publish times are those of the item.
C23_Base64OnlyTopLevelBytes ==
    \A i \in 1..Len(messages) :
        LET produced == cur.converted_row.data
            written == messages[i].data
        IN  /\ produced.data.k = "bytes" =>
                  written.data = [k |-> "base64", v |-> produced.data.v]
            /\ produced.data.k # "bytes" => written.data = produced.data
            /\ written.fields = produced.fields
            /\ written.timestamp = produced.timestamp
            /\ written.header = produced.header
            /\ written.frame_id = produced.frame_id
            /\ written.format = produced.format
            /\ messages[i].log_time = cur.converted_row.log_time_ns
            /\ messages[i].publish_time = cur.converted_row.publish_time_ns

\* a written message whose top-level bytes became base64 while the text
\* under the nested "data" stayed as produced
C23_Witness ==
    /\ Len(messages) = 1
    /\ messages[1].data.data.k = "base64"
    /\ cur.converted_row.data.data.k = "bytes"
    /\ messages[1].data.fields # <<>>
    /\ messages[1].data.fields[1].value.v.k = "text"

(***************************************************************************)
(* C24: sequence numbers of the ROS2 backend                               *)
(***************************************************************************)
\* the item at position k (from 1) of the iterator of write call st
ExpectedItem(st, k) ==
    IF st.kind = "tabular" THEN ExpectedData(st, k)
    ELSE FrameMessage(cfg.other_mappings[st.rule], VideoData(st.file), k - 1)

MsgHas(msg, key) ==
    IF key = C_timestamp THEN msg.timestamp.k # "absent"
    ELSE \E i \in 1..Len(msg.fields) : msg.fields[i].key = key

\* msg[key] of a key that holds a scalar or a sequence
MsgValue(msg, key) ==
    IF key = C_timestamp THEN msg.timestamp.sec
    ELSE msg.fields[CHOOSE i \in 1..Len(msg.fields) : msg.fields[i].key = key].value

\* the written messages of generic mode, each with the row it came from:
\* P(value, cell) holds for every schema field
EveryCopiedField(P(_, _)) ==
    \A s \in 1..Len(streams) :
        streams[s].mode = "generic" =>
            \A k \in 1..Len(StreamMessages(s)) :
                \A f \in 1..Len(streams[s].schema_keys) :
                    LET key == streams[s].schema_keys[f]
                        msg == StreamMessages(s)[k].data
                    IN  /\ MsgHas(msg, key.msg_key)
                        /\ P(MsgValue(msg, key.msg_key),
                             Cell(FullTable(streams[s].file), k, key.row_key))

\* null for a null or NaN cell, the cell itself otherwise
CopiedUnchanged(value, cell) ==
    value = IF cell \in {NaN, Null} THEN Null ELSE cell

\* null for a null or NaN cell, the sequence for a sequence, the ISO-8601
\* text for a timestamp, the cell itself otherwise
CopiedNative(value, cell) ==
    value = CASE cell \in {NaN, Null} -> Null
              [] cell \in {Cells.empty_seq, Cells.seq_of_null} -> cell
              [] cell = Cells.timestamp -> Cells.iso_text
              [] OTHER -> cell

SchemaMsgKeys(st) == {st.schema_keys[f].msg_key : f \in 1..Len(st.schema_keys)}

SchemaRowKeys(st) == {st.schema_keys[f].row_key : f \in 1..Len(st.schema_keys)}

ExcludedColumns(st) ==
    IF SpecOf(st).exclude_columns.some THEN Range(SpecOf(st).exclude_columns.v) ELSE {}

\* what the converter function's template alone makes of row k
TemplateMsg(st, k) ==
    convert_row(converter_functions[st.function_name], FullTable(st.file), k).msg

\* what the iterator of write call st yields for row k (from 1)
ConvertedMsg(st, k) ==
    ConvertRowOf(st.mode, st.schema_keys, st.function_name, FullTable(st.file), k)

\* the rows of the table of st that the template converts without error
ConvertibleRows(st) ==
    {k \in 1..Len(FullTable(st.file).rows) : ConvertedMsg(st, k).ok}

\* C26: in generic mode the final message of a row holds, for every schema
\* field (every table column not in exclude_columns), the value copied from
\* the row, also where the template produced a value under the same key; it
\* holds every key the template produced that is not a schema field, with the
\* template's value; and no column of exclude_columns is copied.
C26_TemplateThenCopy ==
    \A s \in 1..Len(streams) :
        (streams[s].kind = "tabular" /\ streams[s].how = "generic") =>
            LET st == streams[s]
                columns == FullTable(st.file).columns
            IN  /\ SchemaRowKeys(st) =
                      {columns[i].name : i \in 1..Len(columns)} \ ExcludedColumns(st)
                /\ \A k \in ConvertibleRows(st) :
                      LET msg == ConvertedMsg(st, k).msg
                          tmpl == TemplateMsg(st, k)
                      IN  /\ \A f \in 1..Len(st.schema_keys) :
                                /\ MsgHas(msg, st.schema_keys[f].msg_key)
                                /\ CopiedNative(
                                      MsgValue(msg, st.schema_keys[f].msg_key),
                                      Cell(FullTable(st.file), k, st.schema_keys[f].row_key))
                          /\ C_timestamp \in SchemaMsgKeys(st) =>
                                msg.timestamp.k = "scalar"
                          /\ C_timestamp \notin SchemaMsgKeys(st) =>
                                msg.timestamp = tmpl.timestamp
                          /\ msg.header = tmpl.header
                          /\ \A c \in ExcludedColumns(st) \ {C_timestamp} :
                                ~MsgHas(msg, c)
                          /\ \A i \in 1..Len(msg.fields) :
                                msg.fields[i].key \in SchemaMsgKeys(st)

\* a generic write call on a table with a timestamp column: the template
\* produced a {sec, nsec} timestamp for the first row and the copied column
\* replaced it; and a spec that excludes the timestamp column, with the
\* template's timestamp kept
C26_Witness ==
    /\ \E s \in 1..Len(streams) :
          /\ streams[s].how = "generic"
          /\ C_timestamp \in SchemaMsgKeys(streams[s])
          /\ 1 \in ConvertibleRows(streams[s])
          /\ TemplateMsg(streams[s], 1).timestamp.k = "pair"
          /\ ConvertedMsg(streams[s], 1).msg.timestamp.k = "scalar"
    /\ \E s \in 1..Len(streams) :
          /\ streams[s].how = "generic"
          /\ C_timestamp \in ExcludedColumns(streams[s])
          /\ HasColumn(FullTable(streams[s].file), C_timestamp)
          /\ 1 \in ConvertibleRows(streams[s])
          /\ ConvertedMsg(streams[s], 1).msg.timestamp.k = "pair"

(***************************************************************************)
(* C27: field types of the generic JSON schema                             *)
(***************************************************************************)
\* the JSON field type the type rules give a column's value type
JsonTypeOfValueType(dtype) ==
    CASE dtype = Int64 -> FieldType("integer", 0)
      [] dtype = Float64 -> FieldType("number", 0)
      [] dtype = Bool -> FieldType("boolean", 0)
      [] OTHER -> FieldType("string", 0)

\* the columns of the table of st that are schema fields, timestamp left out
PlainSchemaColumns(st) ==
    SelectSeq(FullTable(st.file).columns,
              LAMBDA c : c.name \notin ExcludedColumns(st) \cup {C_timestamp})

JsonGenericCalls ==
    {s \in 1..Len(streams) :
        /\ cfg.writer_format = "json"
        /\ streams[s].kind = "tabular"
        /\ streams[s].how = "generic"}

\* every kept column other than timestamp has a field typed by its value type
JsonTypesByValueType ==
    \A s \in JsonGenericCalls :
        \A i \in 1..Len(PlainSchemaColumns(streams[s])) :
            LET c == PlainSchemaColumns(streams[s])[i]
            IN  \E j \in 1..Len(schemas[streams[s].schema_id].fields) :
                    schemas[streams[s].schema_id].fields[j] =
                        Field(c.name, JsonTypeOfValueType(c.dtype))

\* C27: the generic JSON schema of a table is the timestamp field followed by
\* one field per column, typed by the column's value type only: integer
\* gives integer, float number, boolean boolean, timestamp, categorical and
\* every other value type string; columns [lat: float, lon: float, ts: text]
\* give {timestamp, lat: number, lon: number, ts: string}.
C27_JsonSchemaByValueType ==
    \A s \in JsonGenericCalls :
        schemas[streams[s].schema_id].fields =
            <<Field(C_timestamp, JsonTimeType)>> \o
            [i \in 1..Len(PlainSchemaColumns(streams[s])) |->
                Field(PlainSchemaColumns(streams[s])[i].name,
                      JsonTypeOfValueType(PlainSchemaColumns(streams[s])[i].dtype))]

(***************************************************************************)
(* C28: field types of the generic ROS2 message definition                 *)
(***************************************************************************)
Ros2GenericCalls ==
    {s \in 1..Len(streams) :
        /\ cfg.writer_format = "ros2"
        /\ streams[s].kind = "tabular"
        /\ streams[s].how = "generic"}

\* the columns of the table of st that the message definition keeps
KeptColumns(st) ==
    SelectSeq(FullTable(st.file).columns,
              LAMBDA c : c.name \notin ExcludedColumns(st))

IsFixedWidthNumeric(type) == type.t \in {"int", "uint", "float"} /\ type.bits > 0

\* the type the typing rule states for a column of value type dtype with
\* the given first non-null value
IsStatedRos2Type(type, dtype, sample_data) ==
    CASE dtype.kind = "O" ->
            type = IF ~sample_data.some \/ sample_data.v = Cells.text
                   THEN FieldType("string", 0)
                   ELSE ArrayOf(numpy_to_ros2_type_of(SampleDtype(sample_data.v)))
      [] dtype.kind = "M" -> IsFixedWidthNumeric(type)
      [] dtype.kind = "b" -> type = FieldType("bool", 0)
      [] dtype.kind \in {"i", "u", "f"} -> IsFixedWidthNumeric(type)
      [] OTHER -> type = FieldType("string", 0)

\* the types the message definition of call s gives column c, the leading
\* builtin_interfaces/Time field left out
Ros2FieldTypes(s, c) ==
    {schemas[streams[s].schema_id].fields[j].type :
        j \in {i \in (Len(Ros2InitialPairs) + 1)..Len(schemas[streams[s].schema_id].fields) :
                 schemas[streams[s].schema_id].fields[i].name =
                     sanitize_ros2_field_name(c.name)}}

\* C28: in the ROS2 backend an object column is typed by its first non-null
\* value: a string sample gives string, another sample gives the sample's
\* element type followed by [], and an object column without a non-null
\* value gives string; a timestamp column gives a fixed-width numeric type.
C28_Ros2TypeBySample ==
    \A s \in Ros2GenericCalls :
        \A i \in 1..Len(KeptColumns(streams[s])) :
            LET c == KeptColumns(streams[s])[i]
            IN  \A type \in Ros2FieldTypes(s, c) :
                    IsStatedRos2Type(type, c.dtype,
                        SampleData(FullTable(streams[s].file), c.name, c.dtype))

\* the same for the columns that have a non-null sample or are not objects,
\* timestamp columns left out
C28_Ros2TypeOfSampledColumns ==
    \A s \in Ros2GenericCalls :
        \A i \in 1..Len(KeptColumns(streams[s])) :
            LET c == KeptColumns(streams[s])[i]
                sample_data == SampleData(FullTable(streams[s].file), c.name, c.dtype)
            IN  (c.dtype.kind # "M" /\ (c.dtype.kind = "O" => sample_data.some))
                => \A type \in Ros2FieldTypes(s, c) :
                      IsStatedRos2Type(type, c.dtype, sample_data)

(***************************************************************************)
(* C29: column names after loading                                         *)
(***************************************************************************)
\* a name in which every run of separators has become one underscore and
\* every other character outside [A-Za-z0-9_] is gone
RECURSIVE CollapsedName(_, _)
CollapsedName(name, in_run) ==
    IF name = <<>> THEN <<>>
    ELSE IF IsSeparator(Head(name))
         THEN (IF in_run THEN <<>> ELSE <<"_">>) \o CollapsedName(Tail(name), TRUE)
         ELSE (IF IsWordChar(Head(name)) THEN <<Head(name)>> ELSE <<>>)
                  \o CollapsedName(Tail(name), FALSE)

\* a table is loaded and its converter specs are running
TableLoaded == pc \in {"spec", "row"}

\* the table of the current tuple as the loader returned it
RawTable == cfg.tables[mapping_tuples.tabular[ti].file]

\* every column name of the loaded table consists of [A-Za-z0-9_], has one
\* underscore for each separator of the raw name, and sanitizing it again
\* changes nothing
C29_WordCharsIdempotent ==
    TableLoaded =>
        /\ Len(df.columns) = Len(RawTable.columns)
        /\ \A i \in 1..Len(df.columns) :
              LET name == df.columns[i].name
                  raw == RawTable.columns[i].name
              IN  /\ \A j \in 1..Len(name) : IsWordChar(name[j])
                  /\ name = SelectSeq(MapChars(raw, SepToUnderscore), IsWordChar)
                  /\ SanitizeColumn(name) = name

\* C29: after a table is loaded and before a converter spec runs on it,
\* every column name contains only [A-Za-z0-9_]: each separator (space, dot,
\* hyphen) is an underscore, a run of consecutive separators is collapsed to
\* one underscore, every other character outside the set is removed, and
\* sanitizing a sanitized name leaves it unchanged.
C29_ColumnNamesSanitized ==
    TableLoaded =>
        /\ Len(df.columns) = Len(RawTable.columns)
        /\ \A i \in 1..Len(df.columns) :
              LET name == df.columns[i].name
                  raw == RawTable.columns[i].name
              IN  /\ \A j \in 1..Len(name) : IsWordChar(name[j])
                  /\ name = CollapsedName(raw, FALSE)
                  /\ SanitizeColumn(name) = name

(***************************************************************************)
(* C30: the four phases of convert                                         *)
(***************************************************************************)
NothingWritten ==
    /\ schemas = <<>>
    /\ channels = <<>>
    /\ messages = <<>>
    /\ attachments = <<>>
    /\ metadata = <<>>

MessageKind(m) == streams[m.stream].kind

\* no image/video message precedes a tabular message
TabularBeforeOther ==
    \A i, j \in 1..Len(messages) :
        (MessageKind(messages[i]) = "other" /\ MessageKind(messages[j]) = "tabular")
            => j < i

C30_State ==
    /\ pc \in {"start", "prepare"} => NothingWritten
    /\ TabularBeforeOther
    /\ finished => pc = "done"

C30_Step ==
    /\ mapping_tuples' # mapping_tuples => pc = "prepare" /\ NothingWritten
    /\ <<schemas, channels, messages>>' # <<schemas, channels, messages>>
          => /\ pc \notin {"start", "prepare"}
             /\ attachments = <<>>
             /\ metadata = <<>>
             /\ ~finished
    /\ attachments' # attachments => metadata = <<>> /\ ~finished
    /\ metadata' # metadata => ~finished
    /\ finished' # finished => pc = "finish" /\ Output' = Output
    /\ finished => vars' = vars

\* C30: the writer operations occur in four consecutive phases: the glob
\* resolution of the four rule kinds finishes before the first schema,
\* channel or message is written; every tabular message is written before
\* any image/video message, every channel message before any attachment,
\* every attachment before any metadata record, and finish follows the last
\* metadata record.
C30_FourPhasesInOrder ==
    [](C30_State) /\ [][C30_Step]_vars

\* a finished run that wrote tabular and image/video messages, an
\* attachment and a metadata record
C30_Witness ==
    /\ finished
    /\ \E i \in 1..Len(messages) : MessageKind(messages[i]) = "tabular"
    /\ \E i \in 1..Len(messages) : MessageKind(messages[i]) = "other"
    /\ attachments # <<>>
    /\ metadata # <<>>

====
